---- MODULE Spec2Model ----
(***************************************************************************)
(* Model of the green-score backend (nominr/ecoscore-backend):             *)
(*   - scoring:      api/endpoints.py  _extract_score,                      *)
(*                   _geometric_mean_over_scores                            *)
(*   - orchestrator: api/endpoints.py  compute_green_score                  *)
(*   - TTL memoizer: utils/cache.py    ttl_cache                            *)
(*   - paced, hedged Overpass client: utils/overpass_throttle.py            *)
(*   - request handler, distributed cache and expiration listener:         *)
(*                   api/endpoints.py green_score, utils/kv.py, main.py     *)
(* Each component has its own specification (SpecScore, SpecOrch, SpecMemo, *)
(* SpecPace, SpecServe, SpecStale, SpecBackoff, ...); a specification     *)
(* leaves the other components' variables unchanged.                       *)
(***************************************************************************)
EXTENDS Integers, Sequences, FiniteSets, TLC

VARIABLES
  \* ---- scoring (SpecScore) ----
  scores,          \* the map metric name -> entry handed to the scoring function
  overall_score,   \* its result: Null or Some(n)
  spc,             \* "input" before the function is applied, "scored" after
  \* ---- orchestrator (SpecOrch) ----
  zip,             \* the location key of the call
  coords,          \* what get_coordinates_from_zip returned: Null or Some(point)
  opc,             \* position of compute_green_score
  fut,             \* adapter -> its future: state, and the value once it is done
  outputs,         \* adapter -> the value the adapter returned (NotYet before)
  waitIdx,         \* index of the future whose .result() the caller waits for
  got,             \* adapter -> the value .result() handed to the caller
  result,          \* what compute_green_score returned or raised (NoResult before)
  run,             \* 1 for the first call, 2 for the re-run with the same adapter outputs
  prev,            \* the outcome of the first call, kept for the re-run
  \* ---- TTL memoizer (SpecMemo) ----
  mclock,          \* time.time(), in ticks
  cache,           \* the wrapper's dict: argument key -> Null or Some([val, ts])
  storedAt,        \* argument key -> the time its entry was written (history)
  calls,           \* thread -> the call of the wrapper it is in
  fnCount,         \* number of executions of the wrapped function so far
  \* ---- paced, hedged Overpass client (SpecPace) ----
  pclock,          \* time.monotonic(), in milliseconds
  lockOwner,       \* holder of overpass_throttle._lock: NoTask or <<caller, mirror>>
  last_call,       \* overpass_throttle._last_call, in milliseconds
  hq,              \* caller -> its call of hedged_paced_query
  task,            \* <<caller, mirror>> -> the mirror task of the caller's current round
  lastStart,       \* Null, or Some(time the latest upstream query started) (history)
  minGap,          \* smallest gap seen between two successive query starts (history)
  \* ---- request handler and distributed cache (SpecServe) ----
  sclock,          \* time.time(), in seconds
  _request_log,    \* endpoints._request_log: identity -> list of admission times
  redis,           \* the store: location key -> Null or Some(serialized composite)
  redisUp,         \* whether the store can be reached
  req,             \* request thread -> the call of green_score it is in
  done,            \* the response given last, and what its request did (history)
  upstream,        \* version of the data the source adapters currently see
  admits,          \* identity -> the times of all its admitted requests (history)
  raced,           \* identity -> a window write has overwritten another one (history)
  lpc,             \* position of main._expiration_worker_blocking
  inbox,           \* the messages waiting on the listener's subscription
  cur,             \* the message the listener is handling, and what it did for it
  lsleep,          \* seconds left of the listener's time.sleep
  abandoned,       \* keys whose expiration message was dropped unserved (history)
  \* ---- memoized adapters under the distributed cache (SpecStale) ----
  tclock,          \* time.time(), in seconds
  memo,            \* adapter -> its wrapper's entry for the location: Null or Some([val, ts])
  zipEntry,        \* the store's entry of the location: Null or Some([vals, expires])
  served,          \* the composite answered last: Null or Some([at, vals, hit]) (history)
  \* ---- the backoff of hedged_paced_query (SpecBackoff) ----
  base,            \* _BACKOFF_START as configured, in milliseconds
  backoff,         \* the local variable backoff, in milliseconds
  slept            \* the delays slept after the failed rounds so far (history)

scoreVars == <<scores, overall_score, spc>>
orchVars  == <<zip, coords, opc, fut, outputs, waitIdx, got, result, run, prev>>
memoVars  == <<mclock, cache, storedAt, calls, fnCount>>
paceVars  == <<pclock, lockOwner, last_call, hq, task, lastStart, minGap>>
reqVars    == <<sclock, _request_log, req, done, admits, raced>>
storeVars  == <<redis, redisUp, upstream>>
listenVars == <<lpc, inbox, cur, lsleep, abandoned>>
serveVars  == <<reqVars, storeVars, listenVars>>
staleVars  == <<tclock, memo, zipEntry, served>>
backoffVars == <<base, backoff, slept>>
vars      == <<scoreVars, orchVars, memoVars, paceVars, serveVars, staleVars, backoffVars>>

\* what each component leaves alone
notScoreVars == <<orchVars, memoVars, paceVars, serveVars, staleVars, backoffVars>>
notOrchVars  == <<scoreVars, memoVars, paceVars, serveVars, staleVars, backoffVars>>
notMemoVars  == <<scoreVars, orchVars, paceVars, serveVars, staleVars, backoffVars>>
notPaceVars  == <<scoreVars, orchVars, memoVars, serveVars, staleVars, backoffVars>>
notServeVars == <<scoreVars, orchVars, memoVars, paceVars, staleVars, backoffVars>>
notStaleVars == <<scoreVars, orchVars, memoVars, paceVars, serveVars, backoffVars>>
notBackoffVars == <<scoreVars, orchVars, memoVars, paceVars, serveVars, staleVars>>

(***************************************************************************)
(* Optional values: Python's None is Null, a present value v is Some(v).   *)
(***************************************************************************)
Null == << >>
Some(v) == <<v>>
IsNull(x) == x = << >>
Val(x) == x[1]

Max(a, b) == IF a >= b THEN a ELSE b
Min(a, b) == IF a <= b THEN a ELSE b

(***************************************************************************)
(* Metric names, in the order compute_green_score inserts them into the    *)
(* scores dict.                                                            *)
(***************************************************************************)
MetricOrder ==
  << "air_quality", "tree_canopy", "pavement", "traffic", "toxic_sites",
     "green_space", "demographics", "sea_level_rise", "transit_access",
     "water_availability", "riverine_flood_risk" >>

Metrics == { MetricOrder[i] : i \in 1..Len(MetricOrder) }

(***************************************************************************)
(* METRIC_WEIGHTS, in tenths (1.2 is 12): only the ratios w / total_w      *)
(* enter the score.  demographics has no configured weight.                *)
(***************************************************************************)
METRIC_WEIGHTS ==
  [ air_quality         |-> 12,
    tree_canopy         |-> 8,
    pavement            |-> 8,
    traffic             |-> 10,
    toxic_sites         |-> 11,
    green_space         |-> 9,
    sea_level_rise      |-> 9,
    transit_access      |-> 6,
    water_availability  |-> 6,
    riverine_flood_risk |-> 9 ]

\* METRIC_WEIGHTS.get(k, 0.0)
\* weights.get(k, 1.0) where the code has weights.get(k, 0.0)
WeightOfDefaultOne(k) == IF k \in DOMAIN METRIC_WEIGHTS THEN METRIC_WEIGHTS[k] ELSE 10

WeightOf(k) == IF k \in DOMAIN METRIC_WEIGHTS THEN METRIC_WEIGHTS[k] ELSE 0

(***************************************************************************)
(* A metric entry (a dict of the scores map): error says that it has an    *)
(* "error" key, numeric that its "score" key holds an int or float, score  *)
(* that number (0 when there is none).                                     *)
(***************************************************************************)
OkEntry(s)   == [error |-> FALSE, numeric |-> TRUE,  score |-> s]
PlainEntry   == [error |-> FALSE, numeric |-> FALSE, score |-> 0]
ErrEntry     == [error |-> TRUE,  numeric |-> FALSE, score |-> 0]

\* _extract_score testing `if not score` where the code tests `is None`: a
\* score of 0 counts as missing
_extract_score_falsy(v) ==
  IF v.numeric /\ v.score # 0
  THEN Some(IF v.score < 0 THEN 0 ELSE IF v.score > 100 THEN 100 ELSE v.score)
  ELSE Null

\* _extract_score rejecting, instead of clamping, a score outside 0..100
_extract_score_strict(v) ==
  IF v.numeric /\ v.score >= 0 /\ v.score <= 100 THEN <<v.score>> ELSE << >>

\* _extract_score: the score clamped to 0..100, or None
_extract_score(v) ==
  IF v.numeric THEN Some(Max(0, Min(100, v.score))) ELSE Null

(***************************************************************************)
(* Fixed-point logarithm: LnTable[k] = round(LogScale * ln(k / 200)) for   *)
(* k = 1..200, so that ln(s/100) is LnTable[2s] and the rounding boundary  *)
(* ln((r - 0.5)/100) is LnTable[2r - 1].                                   *)
(***************************************************************************)
LnTable ==
  <<
     -21193269, -18420681, -16798820, -15648092, -14755518, -14026232, -13409629, -12875503,
     -12404371, -11982929, -11601688, -11253643, -10933472, -10637040, -10361069, -10102915,
     -9860416, -9631782, -9415514, -9210340, -9015180, -8829100, -8651293, -8481054,
     -8317766, -8160883, -8009922, -7864451, -7724086, -7588480, -7457321, -7330326,
     -7207239, -7087827, -6971877, -6859194, -6749598, -6642925, -6539023, -6437752,
     -6338981, -6242591, -6148469, -6056511, -5966620, -5878704, -5792679, -5708465,
     -5625988, -5545177, -5465967, -5388295, -5312102, -5237333, -5163937, -5091863,
     -5021064, -4951497, -4883120, -4815891, -4749774, -4684732, -4620731, -4557737,
     -4495720, -4434650, -4374499, -4315239, -4256843, -4199288, -4142550, -4086605,
     -4031432, -3977009, -3923317, -3870336, -3818048, -3766434, -3715478, -3665163,
     -3615473, -3566392, -3517907, -3470002, -3422664, -3375880, -3329637, -3283922,
     -3238724, -3194031, -3149831, -3106115, -3062871, -3020090, -2977762, -2935877,
     -2894426, -2853400, -2812790, -2772589, -2732787, -2693378, -2654354, -2615706,
     -2577428, -2539513, -2501954, -2464745, -2427878, -2391348, -2355149, -2319274,
     -2283718, -2248476, -2213541, -2178909, -2144574, -2110531, -2076775, -2043302,
     -2010107, -1977185, -1944532, -1912143, -1880015, -1848142, -1816521, -1785148,
     -1754020, -1723132, -1692480, -1662062, -1631873, -1601910, -1572170, -1542650,
     -1513346, -1484255, -1455374, -1426700, -1398230, -1369961, -1341891, -1314016,
     -1286334, -1258843, -1231539, -1204420, -1177484, -1150728, -1124150, -1097747,
     -1071518, -1045459, -1019569, -993845, -968286, -942889, -917653, -892574,
     -867652, -842884, -818269, -793804, -769488, -745318, -721294, -697414,
     -673675, -650076, -626615, -603292, -580103, -557048, -534126, -511333,
     -488671, -466135, -443726, -421442, -399281, -377243, -355325, -333526,
     -311846, -290283, -268835, -247502, -226281, -205173, -184176, -163288,
     -142509, -121837, -101271, -80811, -60455, -40201, -20050, 0
  >>

\* math.log(s / 100.0), scaled
Log100(s) == LnTable[2 * s]

\* 100 * exp(num / den) reaches the boundary r - 0.5 (r = 1..100) when
\* den * ln((2r - 1) / 200) <= num; the boundaries increase with r, so the
\* largest one reached is found by bisection
RECURSIVE Bisect(_, _, _, _)
Bisect(lo, hi, num, den) ==
  IF lo = hi THEN lo
  ELSE LET mid == (lo + hi + 1) \div 2
       IN  IF den * LnTable[2 * mid - 1] <= num
           THEN Bisect(mid, hi, num, den)
           ELSE Bisect(lo, mid - 1, num, den)

\* int(round(max(0.0, min(100.0, 100.0 * math.exp(num / den))))), for num/den <= 0:
\* the number of boundaries r - 0.5 (r = 1..100) that 100 * exp(num / den) reaches
RoundExp100(num, den) == Bisect(0, 100, num, den)

RECURSIVE SumOver(_, _)
SumOver(S, f) ==
  IF S = {} THEN 0
  ELSE LET k == CHOOSE x \in S : TRUE IN f[k] + SumOver(S \ {k}, f)

\* the metrics that enter the mean: a numeric score and a configured weight > 0
Qualifying(sc) ==
  { k \in DOMAIN sc : ~IsNull(_extract_score(sc[k])) /\ WeightOf(k) > 0 }

\* the score of a qualifying metric as it enters the mean: clamped, then floored at 1
Floored(sc, k) == Max(1, Val(_extract_score(sc[k])))

\* total_w summed over every configured weight, whether or not the metric
\* has a score: no renormalisation over the metrics present
TotalWeightConfigured(Q) ==
  SumOver(DOMAIN METRIC_WEIGHTS, [k \in DOMAIN METRIC_WEIGHTS |-> METRIC_WEIGHTS[k]])

\* total_w: the sum of the weights of the given metrics
TotalWeight(Q) == SumOver(Q, [k \in Q |-> WeightOf(k)])

\* _geometric_mean_over_scores
_geometric_mean_over_scores(sc) ==
  LET triples == Qualifying(sc)
      total_w == TotalWeight(triples)
      acc     == SumOver(triples, [k \in triples |-> WeightOf(k) * Log100(Floored(sc, k))])
  IN  IF triples = {} THEN Null
      ELSE IF total_w <= 0 THEN Null
      ELSE Some(RoundExp100(acc, total_w))

(***************************************************************************)
(* SpecScore: the scoring function applied to bounded maps of entries.     *)
(***************************************************************************)
\* at most this many entries of an input map carry a numeric score
MaxScored == 3

\* the scores an entry may carry: the floor case 0, scores inside 0..100, and
\* one above it
ScoreVals == { 0, 40, 60, 80, 120 }

\* the input maps: the chosen metrics carry a score, every other entry is an
\* error entry (demographics: a plain entry, it never has a score key)
ScoreInput(D, g) ==
  [ k \in Metrics |-> IF k \in D THEN OkEntry(g[k])
                      ELSE IF k = "demographics" THEN PlainEntry ELSE ErrEntry ]

ScoreInit ==
  /\ \E D \in { X \in SUBSET Metrics : Cardinality(X) <= MaxScored } :
       \E g \in [D -> ScoreVals] : scores = ScoreInput(D, g)
  /\ overall_score = Null
  /\ spc = "input"

\* at most this many weighted metrics carry a score beside the unweighted one
MaxWeighted == 2

\* the entries a metric may have: a score, no score key, or an error
OtherEntries == { OkEntry(v) : v \in ScoreVals } \cup { PlainEntry, ErrEntry }

\* the input maps in which demographics, the metric without a configured
\* weight, has any of these entries
WeighInit ==
  /\ \E D \in { X \in SUBSET (DOMAIN METRIC_WEIGHTS) : Cardinality(X) <= MaxWeighted } :
       \E g \in [D -> ScoreVals] : \E e \in OtherEntries :
         scores = [ScoreInput(D, g) EXCEPT !["demographics"] = e]
  /\ overall_score = Null
  /\ spc = "input"

\* compute_green_score, the final step: overall_score = _geometric_mean_over_scores(scores)
Score ==
  /\ spc = "input"
  /\ overall_score' = _geometric_mean_over_scores(scores)
  /\ spc' = "scored"
  /\ UNCHANGED scores
  /\ UNCHANGED notScoreVars

(***************************************************************************)
(* SpecOrch: compute_green_score.                                          *)
(***************************************************************************)
\* the futures, in the order they are submitted and their results awaited
AdapterOrder ==
  << "air", "land", "traffic", "toxic", "green", "dem",
     "sea_level", "transit", "water", "flood_rtfi" >>

Adapters == { AdapterOrder[i] : i \in 1..Len(AdapterOrder) }

\* at most this many adapters fail during one call
MaxFail == 1

\* location keys: two that the geocoder knows, one it does not
Zips == { "77002", "77005", "00000" }
Known(z) == z # "00000"

NotYet   == [kind |-> "notyet"]
NoResult == [kind |-> "none"]

Future(s, v) == [state |-> s, value |-> v]

\* what an adapter returns: a dict without an "error" key (ok), a dict with one
\* (err), or an exception (raise).  canopy and pavement are the percentages of
\* get_canopy_and_pavement; score is the "score" key (Null when there is none).
OkValue(s)        == [kind |-> "ok", score |-> s, canopy |-> 0, pavement |-> 0]
LandValue(c, p)   == [kind |-> "ok", score |-> Null, canopy |-> c, pavement |-> p]
ErrValue          == [kind |-> "err", score |-> Null, canopy |-> 0, pavement |-> 0]
ErrScoreValue(s)  == [kind |-> "err", score |-> Some(s), canopy |-> 0, pavement |-> 0]
RaiseValue        == [kind |-> "raise", score |-> Null, canopy |-> 0, pavement |-> 0]

\* the data behind each location: what each adapter returns there when it succeeds
LocationData(z) ==
  IF z = "77002"
  THEN [ air |-> OkValue(Some(85)),     land |-> LandValue(20, 35),
         traffic |-> OkValue(Some(60)), toxic |-> OkValue(Some(100)),
         green |-> OkValue(Some(40)),   dem |-> OkValue(Null),
         sea_level |-> OkValue(Some(100)), transit |-> OkValue(Some(0)),
         water |-> OkValue(Some(30)),   flood_rtfi |-> OkValue(Some(100)) ]
  ELSE [ air |-> OkValue(Some(70)),     land |-> LandValue(50, 5),
         traffic |-> OkValue(Some(12)), toxic |-> OkValue(Some(77)),
         green |-> OkValue(Some(93)),   dem |-> OkValue(Null),
         sea_level |-> OkValue(Some(56)), transit |-> OkValue(Some(100)),
         water |-> OkValue(Some(0)),    flood_rtfi |-> OkValue(Some(2)) ]

\* adapters with a path on which an exception escapes: get_green_space and
\* get_traffic_score (the query client's exhaustion error, no try/except),
\* get_canopy_and_pavement (the raster read)
CanRaise(a) == a \in { "green", "traffic", "land" }

\* the ways adapter a can fail
Failures(a) ==
  { ErrValue }
    \cup (IF CanRaise(a) THEN { RaiseValue } ELSE {})
    \cup (IF a = "flood_rtfi" THEN { ErrScoreValue(100) } ELSE {})

Failed(v) == v.kind \in { "err", "raise" }

\* normalize_canopy and normalize_pavement on the percentages of LocationData
normalize_canopy(p) ==
  CASE p = 0 -> 0 [] p = 5 -> 16 [] p = 20 -> 50 [] p = 35 -> 66 [] p = 50 -> 75

normalize_pavement(p) ==
  CASE p = 0 -> 97 [] p = 5 -> 95 [] p = 20 -> 77 [] p = 35 -> 35 [] p = 50 -> 8

\* a test that takes a dict with a "score" key as good, "error" key or not
IsGoodOrScored(v) == v.kind = "ok" \/ (v.kind = "err" /\ ~IsNull(v.score))

\* isinstance(x, dict) and "error" not in x
IsGood(v) == v.kind = "ok"

\* a dict stored as the entry itself: its score key, if any, is the entry's
EntryOf(v) == IF IsNull(v.score) THEN PlainEntry ELSE OkEntry(Val(v.score))

\* lines 158-246: the scores map built from the values .result() returned
BuildScores(g) ==
  [ k \in Metrics |->
      CASE k = "air_quality" ->
             IF IsGood(g["air"]) THEN EntryOf(g["air"]) ELSE ErrEntry
        [] k = "tree_canopy" ->
             IF IsGood(g["land"]) THEN OkEntry(normalize_canopy(g["land"].canopy)) ELSE ErrEntry
        [] k = "pavement" ->
             IF IsGood(g["land"]) THEN OkEntry(normalize_pavement(g["land"].pavement)) ELSE ErrEntry
        [] k = "traffic" ->
             IF IsGood(g["traffic"]) THEN EntryOf(g["traffic"]) ELSE ErrEntry
        [] k = "toxic_sites" ->
             IF IsGood(g["toxic"]) THEN EntryOf(g["toxic"]) ELSE ErrEntry
        [] k = "green_space" ->
             IF IsGood(g["green"]) THEN EntryOf(g["green"]) ELSE ErrEntry
        [] k = "demographics" ->
             IF IsGood(g["dem"]) THEN EntryOf(g["dem"]) ELSE ErrEntry
        [] k = "sea_level_rise" ->
             IF IsGood(g["sea_level"]) THEN EntryOf(g["sea_level"]) ELSE ErrEntry
        [] k = "transit_access" ->
             IF IsGood(g["transit"]) THEN EntryOf(g["transit"]) ELSE ErrEntry
        [] k = "water_availability" ->
             IF IsGood(g["water"]) THEN EntryOf(g["water"]) ELSE ErrEntry
        [] k = "riverine_flood_risk" ->
             IF IsGood(g["flood_rtfi"]) THEN EntryOf(g["flood_rtfi"]) ELSE ErrEntry ]

\* lines 255-262: the composite returned
Composite(z, c, g) ==
  LET sc == BuildScores(g)
  IN  [ kind |-> "composite", zip |-> z, coordinates |-> c, scores |-> sc,
        overall_score |-> _geometric_mean_over_scores(sc) ]

InvalidZip == [kind |-> "error"]
Raised(a)  == [kind |-> "raised", by |-> a]

OrchInit ==
  /\ zip = "00000"
  /\ coords = Null
  /\ opc = "idle"
  /\ fut = [a \in Adapters |-> Future("unsubmitted", NotYet)]
  /\ outputs = [a \in Adapters |-> NotYet]
  /\ waitIdx = 1
  /\ got = [a \in Adapters |-> NotYet]
  /\ result = NoResult
  /\ run = 1
  /\ prev = NoResult

\* lines 122-143: geocode; an unresolved location ends the call, otherwise every
\* adapter is submitted to the pool (10 workers: all start at once)
Call(z, c) ==
  /\ opc = "idle"
  /\ run = 1
  /\ zip' = z
  /\ coords' = c
  /\ IF IsNull(c)
     THEN /\ opc' = "done"
          /\ result' = InvalidZip
          /\ UNCHANGED fut
     ELSE /\ opc' = "collect"
          /\ fut' = [a \in Adapters |-> Future("running", NotYet)]
          /\ UNCHANGED result
  /\ UNCHANGED <<outputs, waitIdx, got, run, prev>>
  /\ UNCHANGED notOrchVars

\* the number of adapters that have failed so far in this call
FailCount == Cardinality({ a \in Adapters : fut[a].state = "done" /\ Failed(fut[a].value) })

\* an adapter's worker finishes: the adapter returns a value or raises
AdapterReturn(a) ==
  /\ fut[a].state = "running"
  /\ \E v \in { LocationData(zip)[a], outputs[a] } \cup Failures(a) :
       /\ IF run = 1
          THEN \/ v = LocationData(zip)[a]
               \/ v \in Failures(a) /\ FailCount < MaxFail
          ELSE v = outputs[a]
       /\ fut' = [fut EXCEPT ![a] = Future("done", v)]
       /\ outputs' = [outputs EXCEPT ![a] = v]
  /\ UNCHANGED <<zip, coords, opc, waitIdx, got, result, run, prev>>
  /\ UNCHANGED notOrchVars

\* a result() that does not block until the future is done
ResultReadyNow(a) == TRUE

\* Future.result() returns (or re-raises) once the future is done
ResultReady(a) == fut[a].state = "done"

\* lines 146-156: the caller takes the results in submission order
CollectNext ==
  /\ opc = "collect"
  /\ LET a == AdapterOrder[waitIdx]
     IN  /\ ResultReady(a)
         /\ got' = [got EXCEPT ![a] = fut[a].value]
         /\ IF fut[a].value.kind = "raise"
            THEN opc' = "unwinding" /\ UNCHANGED waitIdx
            ELSE IF waitIdx = Len(AdapterOrder)
                 THEN opc' = "exiting" /\ UNCHANGED waitIdx
                 ELSE opc' = "collect" /\ waitIdx' = waitIdx + 1
  /\ UNCHANGED <<zip, coords, fut, outputs, result, run, prev>>
  /\ UNCHANGED notOrchVars

\* leaving the with block: ThreadPoolExecutor.__exit__ waits for every future
PoolDrained == \A a \in Adapters : fut[a].state = "done"

\* lines 158-262: build the scores map, compute overall_score, return the composite
Return ==
  /\ opc = "exiting"
  /\ PoolDrained
  /\ result' = Composite(zip, coords, got)
  /\ opc' = "done"
  /\ UNCHANGED <<zip, coords, fut, outputs, waitIdx, got, run, prev>>
  /\ UNCHANGED notOrchVars

\* an exception re-raised by .result() leaves compute_green_score
Propagate ==
  /\ opc = "unwinding"
  /\ PoolDrained
  /\ result' = Raised(AdapterOrder[waitIdx])
  /\ opc' = "raised"
  /\ UNCHANGED <<zip, coords, fut, outputs, waitIdx, got, run, prev>>
  /\ UNCHANGED notOrchVars

\* the orchestrator is run again for the same location, the adapters returning
\* what they returned the first time
ReRun ==
  /\ opc \in { "done", "raised" }
  /\ run = 1
  /\ ~IsNull(coords)
  /\ run' = 2
  /\ prev' = result
  /\ result' = NoResult
  /\ opc' = "collect"
  /\ fut' = [a \in Adapters |-> Future("running", NotYet)]
  /\ waitIdx' = 1
  /\ got' = [a \in Adapters |-> NotYet]
  /\ UNCHANGED <<zip, coords, outputs>>
  /\ UNCHANGED notOrchVars

Point == <<29, -95>>

(***************************************************************************)
(* SpecMemo: ttl_cache (utils/cache.py).  Threads call one wrapped         *)
(* function; the wrapped function takes time, and each execution returns a *)
(* value of its own (the number of the execution).                          *)
(***************************************************************************)
\* the decorator's argument `seconds`, in ticks
TtlSeconds == 2

\* the clock stops here
MaxTime == 4

\* the wrapped function is executed at most this many times
MaxExec == 2

MemoThreads == { "t1", "t2" }

\* argument tuples (args, frozenset(kwargs.items()))
MemoKeys == { "k1", "k2" }

\* a thread's call: the key, `now` as read at its start, the entry it found (saw),
\* when that entry was stored (sawAt, history), the number of the execution of
\* the wrapped function it started (exec, 0 when it started none) and the value
\* it returned (ret)
IdleCall ==
  [ pc |-> "idle", key |-> "k1", now |-> 0, saw |-> Null, sawAt |-> 0, exec |-> 0,
    ret |-> 0 ]

MemoInit ==
  /\ mclock = 0
  /\ cache = [k \in MemoKeys |-> Null]
  /\ storedAt = [k \in MemoKeys |-> 0]
  /\ calls = [t \in MemoThreads |-> IdleCall]
  /\ fnCount = 0

\* time passes
MemoTick ==
  /\ mclock < MaxTime
  /\ mclock' = mclock + 1
  /\ UNCHANGED <<cache, storedAt, calls, fnCount>>
  /\ UNCHANGED notMemoVars

\* line 35-37: key in cache and now - ts < seconds
Fresh(entry, now) == ~IsNull(entry) /\ now - Val(entry).ts < TtlSeconds

\* lines 31-41: the wrapper reads the clock and looks the key up; a fresh entry
\* is returned, otherwise the wrapped function is called
CallStart(t, k) ==
  /\ calls[t].pc = "idle"
  /\ IF Fresh(cache[k], mclock)
     THEN /\ calls' = [calls EXCEPT ![t] =
                 [pc |-> "returned", key |-> k, now |-> mclock, saw |-> cache[k],
                  sawAt |-> storedAt[k], exec |-> 0, ret |-> Val(cache[k]).val]]
          /\ UNCHANGED fnCount
     ELSE /\ fnCount < MaxExec
          /\ calls' = [calls EXCEPT ![t] =
                 [pc |-> "computing", key |-> k, now |-> mclock, saw |-> cache[k],
                  sawAt |-> storedAt[k], exec |-> fnCount + 1, ret |-> 0]]
          /\ fnCount' = fnCount + 1
  /\ UNCHANGED <<mclock, cache, storedAt>>
  /\ UNCHANGED notMemoVars

\* a wrapper that keeps the timestamp of the entry it replaces
StoredTsKept(t) == IF IsNull(calls[t].saw) THEN calls[t].now ELSE Val(calls[t].saw).ts

\* the timestamp stored with a result: `now`, read when the call began
StoredTs(t) == calls[t].now

\* the argument tuples for which the wrapped function returns an error value
\* (airnow.py lines 60-80: return {"error": ...}) and not a result
ErrorArgs == { "k2" }

\* a wrapper that stores results only, and returns an error value unstored
FnReturnDropsErrors(t) ==
  /\ calls[t].pc = "computing"
  /\ IF calls[t].key \in ErrorArgs
     THEN UNCHANGED <<cache, storedAt>>
     ELSE /\ cache' = [cache EXCEPT ![calls[t].key] =
                         Some([val |-> calls[t].exec, ts |-> StoredTs(t)])]
          /\ storedAt' = [storedAt EXCEPT ![calls[t].key] = mclock]
  /\ calls' = [calls EXCEPT ![t].pc = "returned", ![t].ret = calls[t].exec]
  /\ UNCHANGED <<mclock, fnCount>>
  /\ UNCHANGED notMemoVars

\* a wrapper that, finding an entry stored since its own lookup, keeps that
\* entry and returns its value (first store wins)
FnReturnKeepsFirst(t) ==
  /\ calls[t].pc = "computing"
  /\ IF cache[calls[t].key] # calls[t].saw
     THEN /\ UNCHANGED <<cache, storedAt>>
          /\ calls' = [calls EXCEPT ![t].pc = "returned",
                                    ![t].ret = Val(cache[calls[t].key]).val]
     ELSE /\ cache' = [cache EXCEPT ![calls[t].key] =
                         Some([val |-> calls[t].exec, ts |-> StoredTs(t)])]
          /\ storedAt' = [storedAt EXCEPT ![calls[t].key] = mclock]
          /\ calls' = [calls EXCEPT ![t].pc = "returned", ![t].ret = calls[t].exec]
  /\ UNCHANGED <<mclock, fnCount>>
  /\ UNCHANGED notMemoVars

\* lines 41-43: the wrapped function returns; its result, whatever it is, is
\* stored and returned
FnReturn(t) ==
  /\ calls[t].pc = "computing"
  /\ cache' = [cache EXCEPT ![calls[t].key] =
                  Some([val |-> calls[t].exec, ts |-> StoredTs(t)])]
  /\ storedAt' = [storedAt EXCEPT ![calls[t].key] = mclock]
  /\ calls' = [calls EXCEPT ![t].pc = "returned", ![t].ret = calls[t].exec]
  /\ UNCHANGED <<mclock, fnCount>>
  /\ UNCHANGED notMemoVars

\* a wrapper that catches the exception and stores a placeholder for the key
FnRaiseStoresEntry(t) ==
  /\ calls[t].pc = "computing"
  /\ calls' = [calls EXCEPT ![t].pc = "raised"]
  /\ cache' = [cache EXCEPT ![calls[t].key] = Some([val |-> 0, ts |-> StoredTs(t)])]
  /\ storedAt' = [storedAt EXCEPT ![calls[t].key] = mclock]
  /\ UNCHANGED <<mclock, fnCount>>
  /\ UNCHANGED notMemoVars

\* line 41: the wrapped function raises; the exception leaves the wrapper
FnRaise(t) ==
  /\ calls[t].pc = "computing"
  /\ calls' = [calls EXCEPT ![t].pc = "raised"]
  /\ UNCHANGED <<mclock, cache, storedAt, fnCount>>
  /\ UNCHANGED notMemoVars

\* the caller goes on, and may call again
CallEnd(t) ==
  /\ calls[t].pc \in { "returned", "raised" }
  /\ calls' = [calls EXCEPT ![t] = IdleCall]
  /\ UNCHANGED <<mclock, cache, storedAt, fnCount>>
  /\ UNCHANGED notMemoVars

(***************************************************************************)
(* SpecPace: utils/overpass_throttle.py.  Callers run hedged_paced_query   *)
(* concurrently; each round submits one task per mirror, and each task     *)
(* goes through _paced_call.  Times are in milliseconds; the clock         *)
(* advances in steps of TickMs.                                            *)
(***************************************************************************)
\* _MIN_INTERVAL_S, _MAX_RETRIES, _BACKOFF_START_S, _HEDGE_MIRRORS (defaults)
MIN_INTERVAL_MS == 1200
MAX_RETRIES == 4
BACKOFF_START_MS == 1500
HEDGE_MIRRORS == 2
\* min(backoff * 1.8, 12.0)
BACKOFF_CAP_MS == 12000
\* cf.as_completed(futs, timeout=60)
ROUND_TIMEOUT_MS == 60000

\* resolution of the clock, and where it stops
TickMs == 3000
MaxClockTicks == 8

PaceCallers == { "c1" }

\* DEFAULT_MIRRORS[: _HEDGE_MIRRORS], by position
NumDefaultMirrors == 3
Mirrors == 1..Min(HEDGE_MIRRORS, NumDefaultMirrors)

Tasks == PaceCallers \X Mirrors
NoTask == <<"none", 0>>

IdleTask == [st |-> "none", wakeAt |-> 0]

\* a caller's call: position, attempt number, backoff, the time as_completed
\* was called, the tasks as_completed has yielded, the response returned, and
\* (history) the rounds started, the queries issued, whether any query succeeded
IdleHq ==
  [ pc |-> "idle", attempt |-> 0, backoff |-> 0, roundStart |-> 0, seen |-> {},
    wakeAt |-> 0, ret |-> 0, rounds |-> 0, queries |-> 0, anyOk |-> FALSE ]

PaceInit ==
  /\ pclock = 0
  /\ lockOwner = NoTask
  /\ last_call = 0
  /\ hq = [c \in PaceCallers |-> IdleHq]
  /\ task = [x \in Tasks |-> IdleTask]
  /\ lastStart = Null
  /\ minGap = MIN_INTERVAL_MS

\* time passes
PaceTick ==
  /\ pclock < MaxClockTicks * TickMs
  /\ pclock' = pclock + TickMs
  /\ UNCHANGED <<lockOwner, last_call, hq, task, lastStart, minGap>>
  /\ UNCHANGED notPaceVars

\* a mirror query in flight takes a minute
QueryStall ==
  /\ pclock < MaxClockTicks * TickMs
  /\ \E x \in Tasks : task[x].st = "query"
  /\ pclock' = pclock + ROUND_TIMEOUT_MS
  /\ UNCHANGED <<lockOwner, last_call, hq, task, lastStart, minGap>>
  /\ UNCHANGED notPaceVars

\* lines 30-32: the call begins
Begin(c) ==
  /\ hq[c].pc = "idle"
  /\ hq' = [hq EXCEPT ![c].pc = "submit", ![c].attempt = 1,
                      ![c].backoff = BACKOFF_START_MS]
  /\ UNCHANGED <<pclock, lockOwner, last_call, task, lastStart, minGap>>
  /\ UNCHANGED notPaceVars

\* lines 35-40: one task per mirror is submitted (the pool has a worker for
\* each), then as_completed is called
SubmitRound(c) ==
  /\ hq[c].pc = "submit"
  /\ task' = [x \in Tasks |-> IF x[1] = c THEN [st |-> "waitlock", wakeAt |-> 0] ELSE task[x]]
  /\ hq' = [hq EXCEPT ![c].pc = "race", ![c].roundStart = pclock, ![c].seen = {},
                      ![c].rounds = @ + 1]
  /\ UNCHANGED <<pclock, lockOwner, last_call, lastStart, minGap>>
  /\ UNCHANGED notPaceVars

\* the gap a query starting now leaves to the latest earlier start, capped
GapNow == IF IsNull(lastStart) THEN MIN_INTERVAL_MS
          ELSE Min(MIN_INTERVAL_MS, pclock - Val(lastStart))

\* the task calls fn(): the upstream query starts
StartQuery(x) ==
  /\ task' = [task EXCEPT ![x] = [st |-> "query", wakeAt |-> 0]]
  /\ hq' = [hq EXCEPT ![x[1]].queries = @ + 1]
  /\ lastStart' = Some(pclock)
  /\ minGap' = Min(minGap, GapNow)

\* line 22: wait = _MIN_INTERVAL_S - (time.monotonic() - _last_call)
Wait == MIN_INTERVAL_MS - (pclock - last_call)

\* _paced_call without `with _lock:`: the task goes on whoever is inside
AcquireUnlocked(x) ==
  /\ task[x].st = "waitlock"
  /\ lockOwner' = x
  /\ IF Wait > 0
     THEN /\ task' = [task EXCEPT ![x] = [st |-> "sleep", wakeAt |-> pclock + Wait]]
          /\ UNCHANGED <<hq, lastStart, minGap>>
     ELSE StartQuery(x)
  /\ UNCHANGED <<pclock, last_call>>
  /\ UNCHANGED notPaceVars

\* _paced_call lines 21-25: the task takes the lock; it sleeps if the interval
\* since _last_call has not passed, otherwise it calls fn() at once
Acquire(x) ==
  /\ task[x].st = "waitlock"
  /\ lockOwner = NoTask
  /\ lockOwner' = x
  /\ IF Wait > 0
     THEN /\ task' = [task EXCEPT ![x] = [st |-> "sleep", wakeAt |-> pclock + Wait]]
          /\ UNCHANGED <<hq, lastStart, minGap>>
     ELSE StartQuery(x)
  /\ UNCHANGED <<pclock, last_call>>
  /\ UNCHANGED notPaceVars

\* _paced_call lines 24-25: time.sleep(wait) is over, fn() is called
WakeTask(x) ==
  /\ task[x].st = "sleep"
  /\ pclock >= task[x].wakeAt
  /\ StartQuery(x)
  /\ UNCHANGED <<pclock, lockOwner, last_call>>
  /\ UNCHANGED notPaceVars

\* _paced_call lines 25-27: the query returns a response; _last_call is set and
\* the lock released
QueryOk(x) ==
  /\ task[x].st = "query"
  /\ last_call' = pclock
  /\ lockOwner' = NoTask
  /\ task' = [task EXCEPT ![x].st = "ok"]
  /\ hq' = [hq EXCEPT ![x[1]].anyOk = TRUE]
  /\ UNCHANGED <<pclock, lastStart, minGap>>
  /\ UNCHANGED notPaceVars

\* _paced_call line 25: the query raises; the with block releases the lock
QueryFail(x) ==
  /\ task[x].st = "query"
  /\ lockOwner' = NoTask
  /\ task' = [task EXCEPT ![x].st = "fail"]
  /\ UNCHANGED <<pclock, last_call, hq, lastStart, minGap>>
  /\ UNCHANGED notPaceVars

TaskDone(x) == task[x].st \in { "ok", "fail" }
RoundDone(c) == \A m \in Mirrors : TaskDone(<<c, m>>)

\* lines 40-42: as_completed yields a task whose query succeeded: return fut.result()
TakeOk(c, m) ==
  /\ hq[c].pc = "race"
  /\ m \notin hq[c].seen
  /\ task[<<c, m>>].st = "ok"
  /\ hq' = [hq EXCEPT ![c].pc = "returning", ![c].ret = m, ![c].seen = @ \cup {m}]
  /\ UNCHANGED <<pclock, lockOwner, last_call, task, lastStart, minGap>>
  /\ UNCHANGED notPaceVars

\* lines 40-44: as_completed yields a task whose query failed: pass
TakeFail(c, m) ==
  /\ hq[c].pc = "race"
  /\ m \notin hq[c].seen
  /\ task[<<c, m>>].st = "fail"
  /\ hq' = [hq EXCEPT ![c].seen = @ \cup {m}]
  /\ UNCHANGED <<pclock, lockOwner, last_call, task, lastStart, minGap>>
  /\ UNCHANGED notPaceVars

\* line 40: as_completed raises TimeoutError when a task is still not done 60 s
\* after it was called
RoundTimeout(c) ==
  /\ hq[c].pc = "race"
  /\ ~RoundDone(c)
  /\ pclock - hq[c].roundStart >= ROUND_TIMEOUT_MS
  /\ hq' = [hq EXCEPT ![c].pc = "timing_out"]
  /\ UNCHANGED <<pclock, lockOwner, last_call, task, lastStart, minGap>>
  /\ UNCHANGED notPaceVars

\* the with block left by shutdown(wait=False): the response is returned while
\* tasks of the round may still be waiting or querying
LeaveReturnNoWait(c) ==
  /\ hq[c].pc = "returning"
  /\ hq' = [hq EXCEPT ![c].pc = "returned"]
  /\ UNCHANGED <<pclock, lockOwner, last_call, task, lastStart, minGap>>
  /\ UNCHANGED notPaceVars

\* line 35: leaving the with block waits for the round's tasks (shutdown(wait=True));
\* then the response is returned, or the TimeoutError leaves the function
LeaveReturn(c) ==
  /\ hq[c].pc = "returning"
  /\ RoundDone(c)
  /\ hq' = [hq EXCEPT ![c].pc = "returned"]
  /\ UNCHANGED <<pclock, lockOwner, last_call, task, lastStart, minGap>>
  /\ UNCHANGED notPaceVars

LeaveTimeout(c) ==
  /\ hq[c].pc = "timing_out"
  /\ RoundDone(c)
  /\ hq' = [hq EXCEPT ![c].pc = "timeout_raised"]
  /\ UNCHANGED <<pclock, lockOwner, last_call, task, lastStart, minGap>>
  /\ UNCHANGED notPaceVars

\* lines 40-45: every task of the round has failed: time.sleep(backoff)
RoundFailed(c) ==
  /\ hq[c].pc = "race"
  /\ hq[c].seen = Mirrors
  /\ hq' = [hq EXCEPT ![c].pc = "backoff", ![c].wakeAt = pclock + hq[c].backoff]
  /\ UNCHANGED <<pclock, lockOwner, last_call, task, lastStart, minGap>>
  /\ UNCHANGED notPaceVars

\* line 46: backoff = min(backoff * 1.8, 12.0)
NextBackoff(b) == Min((b * 9) \div 5, BACKOFF_CAP_MS)

\* lines 45-48: the sleep is over; the next attempt, or the exhaustion error
AfterBackoff(c) ==
  /\ hq[c].pc = "backoff"
  /\ pclock >= hq[c].wakeAt
  /\ hq' = [hq EXCEPT ![c].backoff = NextBackoff(@),
                      ![c].pc = IF hq[c].attempt = MAX_RETRIES THEN "exhausted" ELSE "submit",
                      ![c].attempt = IF hq[c].attempt = MAX_RETRIES THEN @ ELSE @ + 1]
  /\ UNCHANGED <<pclock, lockOwner, last_call, task, lastStart, minGap>>
  /\ UNCHANGED notPaceVars

(***************************************************************************)
(* The request handler green_score (api/endpoints.py) and the distributed  *)
(* cache (utils/kv.py).  green_score is a plain def: the server runs each  *)
(* request on a worker thread, so requests interleave between any two      *)
(* statements.  Times are in seconds.                                      *)
(***************************************************************************)
\* RATE_LIMIT_PER_MIN (default 30, from the environment), scaled
RATE_LIMIT_PER_MIN == 2
\* [t for t in calls if now - t < 60]
RATE_WINDOW_S == 60
\* Cache-Control: public, max-age=600
MAX_AGE_S == 600

\* resolution of the clock, where it stops, and how often the upstream data change
ServeTickS == 30
MaxServeTicks == 3
MaxVer == 2
\* requests of an identity arrive until so many of them have been admitted
MaxAdmits == 3

ReqThreads == { "r1", "r2" }
Identities == { "a", "b" }
ServeZips == { "77002", "00000" }

\* green_score lines 274-275: the first entry of x-forwarded-for, or else the
\* peer address ("" is an absent or empty header)
ClientIp(xff, peer) == IF xff # "" THEN xff ELSE peer

\* line 278, with <= for <
PruneInclusive(ts, now) == SelectSeq(ts, LAMBDA t : now - t <= RATE_WINDOW_S)

\* line 278: the timestamps younger than the window
Prune(ts, now) == SelectSeq(ts, LAMBDA t : now - t < RATE_WINDOW_S)

\* line 279: the request is admitted unless the window is full
Admitted(kept) == Len(kept) < RATE_LIMIT_PER_MIN

\* lines 281-282 done for a rejected request as well
LogAppendedAlways(log, ip, kept, now, ok) == [log EXCEPT ![ip] = Append(kept, now)]

\* lines 281-282 with one window for all identities
LogAfterShared(log, ip, kept, now, ok) ==
  IF ok THEN [j \in DOMAIN log |-> Append(kept, now)] ELSE log

\* lines 279-282: the window after the decision; a rejection raises before
\* anything is stored
LogAfter(log, ip, kept, now, ok) ==
  IF ok THEN [log EXCEPT ![ip] = Append(kept, now)] ELSE log

\* a composite as compute_green_score returns it: the location, the data it
\* was computed from (ver), the coordinates a tuple
CompositeOf(z, v) == [zip |-> z, ver |-> v, coordinates |-> "tuple"]
ErrorDict == [zip |-> "", ver |-> 0, coordinates |-> "error"]
IsComposite(x) == x.coordinates # "error"

\* json.dumps(x) and json.loads(s): a tuple is written as an array and read
\* back as a list
Dumps(x) == <<"json", x.zip, x.ver>>
Loads(s) == [zip |-> s[2], ver |-> s[3], coordinates |-> "list"]

\* a tag hashed from repr(x), in which a tuple and a list differ
ETagOfRepr(x) == <<"sha256", x.zip, x.ver, x.coordinates>>

\* hashlib.sha256(json.dumps(x, sort_keys=True).encode()).hexdigest(): the
\* text of a tuple and of a list are the same, and every key is a string
ETagOf(x) == <<"sha256", x.zip, x.ver>>

\* the responses of green_score
TooManyRequests ==
  [status |-> 429, body |-> <<"detail">>, etag |-> Null, xcache |-> "", maxAge |-> Null]
NotModified(x) ==
  [status |-> 304, body |-> << >>, etag |-> Some(ETagOf(x)), xcache |-> "HIT",
   maxAge |-> Some(MAX_AGE_S)]
FullBody(x, xc) ==
  [status |-> 200, body |-> Dumps(x), etag |-> Some(ETagOf(x)), xcache |-> xc,
   maxAge |-> Some(MAX_AGE_S)]
ErrorBody ==
  [status |-> 200, body |-> <<"error">>, etag |-> Null, xcache |-> "", maxAge |-> Null]
\* an exception that leaves green_score
ServerError ==
  [status |-> 500, body |-> <<"exception">>, etag |-> Null, xcache |-> "", maxAge |-> Null]

\* a call of green_score: position, identity, location key, If-None-Match, the
\* time read at line 276, the window read at line 277, what the orchestrator
\* returned; and (history) the numbers of cache reads, orchestrator calls,
\* adapter fan-outs and cache writes of this request
IdleReq ==
  [ pc |-> "idle", ip |-> "", zip |-> "", inm |-> Null, now |-> 0, calls |-> << >>,
    result |-> Null, rd |-> 0, ran |-> 0, fan |-> 0, wr |-> 0 ]

\* no response yet
NoResponse == [ resp |-> Null, ip |-> "", zip |-> "", rd |-> 0, ran |-> 0, fan |-> 0, wr |-> 0 ]

ReqInit ==
  /\ sclock = 0
  /\ _request_log = [i \in Identities |-> << >>]
  /\ req = [t \in ReqThreads |-> IdleReq]
  /\ done = NoResponse
  /\ admits = [i \in Identities |-> << >>]
  /\ raced = [i \in Identities |-> FALSE]

StoreInit ==
  /\ redis = [z \in ServeZips |-> Null]
  /\ redisUp = TRUE
  /\ upstream = 1

\* time passes
ServeTick ==
  /\ sclock < MaxServeTicks * ServeTickS
  /\ sclock' = sclock + ServeTickS
  /\ UNCHANGED <<_request_log, req, done, admits, raced>>
  /\ UNCHANGED <<storeVars, listenVars>>
  /\ UNCHANGED notServeVars

\* the data the adapters read change
UpstreamChange ==
  /\ upstream < MaxVer
  /\ upstream' = upstream + 1
  /\ UNCHANGED <<redis, redisUp>>
  /\ UNCHANGED <<reqVars, listenVars>>
  /\ UNCHANGED notServeVars

\* the store becomes unreachable, and reachable again
RedisDown ==
  /\ redisUp
  /\ redisUp' = FALSE
  /\ UNCHANGED <<redis, upstream>>
  /\ UNCHANGED <<reqVars, listenVars>>
  /\ UNCHANGED notServeVars

RedisBack ==
  /\ ~redisUp
  /\ redisUp' = TRUE
  /\ UNCHANGED <<redis, upstream>>
  /\ UNCHANGED <<reqVars, listenVars>>
  /\ UNCHANGED notServeVars

\* the request of t, in state r, is over with response resp
Respond(t, r, resp) ==
  /\ done' = [ resp |-> Some(resp), ip |-> r.ip, zip |-> r.zip, rd |-> r.rd, ran |-> r.ran,
               fan |-> r.fan, wr |-> r.wr ]
  /\ req' = [req EXCEPT ![t] = IdleReq]

\* lines 274-277: a request arrives; the identity, the time and the window of
\* the identity are read.  If-None-Match is absent or the tag of a composite.
Arrive(t, xff, peer, z) ==
  /\ req[t].pc = "idle"
  /\ Len(admits[ClientIp(xff, peer)]) < MaxAdmits
  /\ \E inm \in {Null} \cup { Some(ETagOf(CompositeOf(z, v))) : v \in 1..upstream } :
       req' = [req EXCEPT ![t] =
                 [IdleReq EXCEPT !.pc = "admit", !.ip = ClientIp(xff, peer), !.zip = z,
                                 !.inm = inm, !.now = sclock,
                                 !.calls = _request_log[ClientIp(xff, peer)]]]
  /\ UNCHANGED <<sclock, _request_log, done, admits, raced>>
  /\ UNCHANGED <<storeVars, listenVars>>
  /\ UNCHANGED notServeVars

\* lines 278-282: the window is pruned; when it is full the request is
\* rejected with 429, otherwise the time is appended and the window stored
Admit(t) ==
  LET r == req[t]
      kept == Prune(r.calls, r.now)
      ok == Admitted(kept)
  IN  /\ r.pc = "admit"
      /\ _request_log' = LogAfter(_request_log, r.ip, kept, r.now, ok)
      /\ IF ok
         THEN /\ req' = [req EXCEPT ![t] = [r EXCEPT !.pc = "lookup", !.calls = << >>]]
              /\ admits' = [admits EXCEPT ![r.ip] = Append(@, r.now)]
              /\ raced' = [raced EXCEPT ![r.ip] = @ \/ _request_log[r.ip] # r.calls]
              /\ UNCHANGED done
         ELSE /\ Respond(t, r, TooManyRequests)
              /\ UNCHANGED <<admits, raced>>
      /\ UNCHANGED sclock
      /\ UNCHANGED <<storeVars, listenVars>>
      /\ UNCHANGED notServeVars

\* kv.cache_get_zip, lines 13-15: r.get raises when the store cannot be
\* reached; otherwise None, or the stored text parsed
CacheGetRaises == ~redisUp
cache_get_zip(z) == IF IsNull(redis[z]) THEN Null ELSE Some(Loads(Val(redis[z])))

\* line 289, whatever the tag
TagMatchesAny(inm, x) == TRUE

\* line 289: inm == etag
TagMatches(inm, x) == inm = Some(ETagOf(x))

\* lines 286-304: the response to a request that found x in the cache
HitResponse(inm, x) == IF TagMatches(inm, x) THEN NotModified(x) ELSE FullBody(x, "HIT")

\* lines 285-304: the cache is read; an entry is answered from, 304 when
\* If-None-Match equals its tag; an exception of the read leaves green_score
Lookup(t) ==
  LET r == [req[t] EXCEPT !.rd = @ + 1]
      c == cache_get_zip(r.zip)
  IN  /\ r.pc = "lookup"
      /\ IF CacheGetRaises
         THEN Respond(t, r, ServerError)
         ELSE IF ~IsNull(c)
              THEN Respond(t, r, HitResponse(r.inm, Val(c)))
              ELSE /\ req' = [req EXCEPT ![t] = [r EXCEPT !.pc = "compute"]]
                   /\ UNCHANGED done
      /\ UNCHANGED <<sclock, _request_log, admits, raced>>
      /\ UNCHANGED <<storeVars, listenVars>>
      /\ UNCHANGED notServeVars

\* compute_green_score as the handler and the listener see it (SpecOrch has
\* its steps): the location does not resolve and an error dict is returned
\* before any adapter is submitted (lines 122-124); or the adapters run and a
\* composite is returned; or an adapter's exception leaves the function
ComputeOutcomes(z) == (IF Known(z) THEN { "composite", "raised" } ELSE {}) \cup { "error" }

\* line 307 and main.py line 92, without the test
CacheableAlways(x) == TRUE

\* line 307 and main.py line 92: isinstance(x, dict) and not x.get("error")
Cacheable(x) == IsComposite(x)

\* kv.cache_set_zip, lines 17-18: r.setex raises when the store cannot be
\* reached; otherwise the serialized payload is stored under the key
CacheSetRaises == ~redisUp
cache_set_zip(z, x) == [redis EXCEPT ![z] = Some(Dumps(x))]

\* lines 306-307, 320: the orchestrator is called; an error dict is returned
\* to the client as it is, an exception leaves green_score
Compute(t) ==
  LET r == [req[t] EXCEPT !.ran = @ + 1]
  IN  /\ r.pc = "compute"
      /\ \E o \in ComputeOutcomes(r.zip) :
           LET x == IF o = "composite" THEN CompositeOf(r.zip, upstream) ELSE ErrorDict
               r2 == [r EXCEPT !.fan = IF o = "error" THEN @ ELSE @ + 1,
                               !.result = IF o = "raised" THEN Null ELSE Some(x)]
           IN  IF o = "raised"
               THEN Respond(t, r2, ServerError)
               ELSE IF Cacheable(x)
                    THEN /\ req' = [req EXCEPT ![t] = [r2 EXCEPT !.pc = "write"]]
                         /\ UNCHANGED done
                    ELSE Respond(t, r2, ErrorBody)
      /\ UNCHANGED <<sclock, _request_log, admits, raced>>
      /\ UNCHANGED <<storeVars, listenVars>>
      /\ UNCHANGED notServeVars

\* lines 308-318: the composite is written to the cache, then returned with
\* X-Cache: MISS; an exception of the write leaves green_score
Write(t) ==
  LET r == req[t]
  IN  /\ r.pc = "write"
      /\ IF CacheSetRaises
         THEN /\ Respond(t, r, ServerError)
              /\ UNCHANGED redis
         ELSE /\ redis' = cache_set_zip(r.zip, Val(r.result))
              /\ Respond(t, [r EXCEPT !.wr = @ + 1], FullBody(Val(r.result), "MISS"))
      /\ UNCHANGED <<sclock, _request_log, admits, raced>>
      /\ UNCHANGED <<redisUp, upstream>>
      /\ UNCHANGED listenVars
      /\ UNCHANGED notServeVars

(***************************************************************************)
(* The expiration listener main._expiration_worker_blocking and the        *)
(* store's expiration feed.  A message is the key that expired; the feed   *)
(* is shared, so keys of other namespaces arrive as well.                  *)
(***************************************************************************)
\* kv.ZIP_CACHE_PREFIX
ZIP_CACHE_PREFIX == "greenscore:"
\* main.py lines 98, 101: time.sleep(30)
LISTEN_BACKOFF_S == 30
\* messages the subscription holds at most
MaxInbox == 1

\* kv._key: the key of a location; a message's data: string or not, prefix, rest
_key(z) == <<"str", ZIP_CACHE_PREFIX, z>>
NonString == <<"none", "", "">>
ForeignKeys == { <<"str", "session:", "77002">>, NonString }

\* main.py line 88, whatever the prefix
StartsWithAnyPrefix(k) == TRUE

\* main.py lines 86-89: isinstance(key, str), key.startswith(ZIP_CACHE_PREFIX)
IsStr(k) == k[1] = "str"
StartsWithPrefix(k) == k[2] = ZIP_CACHE_PREFIX

\* no message handled yet
NoMessage == [ key |-> NonString, res |-> Null, computes |-> 0, fan |-> 0, writes |-> 0 ]

ListenInit ==
  /\ lpc = "connect"
  /\ inbox = << >>
  /\ cur = NoMessage
  /\ lsleep = 0
  /\ abandoned = {}

ServeInit == ReqInit /\ StoreInit /\ ListenInit

\* the subscription exists: from subscribe until an exception leaves the loop
Subscribed == lpc \in { "listening", "compute", "write" }

\* the TTL of an entry elapses (ZIP_CACHE_TTL_SECONDS after it was written):
\* the store deletes it and publishes its key to the subscribers there are
Expire(z) ==
  /\ redisUp
  /\ ~IsNull(redis[z])
  /\ Subscribed => Len(inbox) < MaxInbox
  /\ redis' = [redis EXCEPT ![z] = Null]
  /\ inbox' = IF Subscribed THEN Append(inbox, _key(z)) ELSE inbox
  /\ UNCHANGED <<redisUp, upstream>>
  /\ UNCHANGED <<lpc, cur, lsleep, abandoned>>
  /\ UNCHANGED reqVars
  /\ UNCHANGED notServeVars

\* a message of the shared feed that is not one of this namespace's keys
ForeignEvent(k) ==
  /\ redisUp
  /\ Subscribed
  /\ Len(inbox) < MaxInbox
  /\ inbox' = Append(inbox, k)
  /\ UNCHANGED <<lpc, cur, lsleep, abandoned>>
  /\ UNCHANGED <<reqVars, storeVars>>
  /\ UNCHANGED notServeVars

\* main.py lines 95, 99, the second clause left out
CaughtRedisOnly(e) == e \in { "ConnectionError", "TimeoutError" }

\* main.py lines 95, 99: except (ConnectionError, TimeoutError), except Exception
Caught(e) == e \in { "ConnectionError", "TimeoutError" } \/ e = "Exception"

\* main.py lines 95-101: an exception leaves the try block: the subscription
\* and its pending messages are given up, and the listener sleeps; gone is
\* the set of keys whose message was being served
ListenerFails(e, gone) ==
  /\ lpc' = IF Caught(e) THEN "backoff" ELSE "stopped"
  /\ lsleep' = LISTEN_BACKOFF_S
  /\ inbox' = << >>
  /\ abandoned' = abandoned \cup gone

\* main.py lines 65-78: the top of the loop; subscribe raises when the store
\* cannot be reached (an exception of config_set is passed over)
Subscribe ==
  /\ lpc = "connect"
  /\ IF redisUp
     THEN /\ lpc' = "listening"
          /\ inbox' = << >>
          /\ UNCHANGED <<lsleep, abandoned>>
     ELSE ListenerFails("ConnectionError", {})
  /\ UNCHANGED cur
  /\ UNCHANGED <<reqVars, storeVars>>
  /\ UNCHANGED notServeVars

\* main.py line 80: listen() raises when the connection is lost
ConnectionLost ==
  /\ lpc = "listening"
  /\ ~redisUp
  /\ ListenerFails("ConnectionError", {})
  /\ UNCHANGED cur
  /\ UNCHANGED <<reqVars, storeVars>>
  /\ UNCHANGED notServeVars

\* main.py lines 80-90: the next message; one whose data is not a string, or
\* does not start with the prefix, is passed over
Take ==
  /\ lpc = "listening"
  /\ inbox # << >>
  /\ inbox' = Tail(inbox)
  /\ cur' = [NoMessage EXCEPT !.key = Head(inbox)]
  /\ lpc' = IF IsStr(Head(inbox)) /\ StartsWithPrefix(Head(inbox))
            THEN "compute" ELSE "listening"
  /\ UNCHANGED <<lsleep, abandoned>>
  /\ UNCHANGED <<reqVars, storeVars>>
  /\ UNCHANGED notServeVars

\* main.py lines 90-92: zip_code = key[len(prefix):], compute_green_score; an
\* error dict is not written; an exception leaves the loop
LCompute ==
  /\ lpc = "compute"
  /\ \E o \in ComputeOutcomes(cur.key[3]) :
       LET x == IF o = "composite" THEN CompositeOf(cur.key[3], upstream) ELSE ErrorDict
       IN  IF o = "raised"
           THEN /\ ListenerFails("Exception", { cur.key[3] })
                /\ cur' = [cur EXCEPT !.computes = @ + 1, !.fan = @ + 1]
           ELSE /\ lpc' = IF Cacheable(x) THEN "write" ELSE "listening"
                /\ cur' = [cur EXCEPT !.computes = @ + 1, !.res = Some(x),
                                      !.fan = IF o = "error" THEN @ ELSE @ + 1]
                /\ UNCHANGED <<inbox, lsleep, abandoned>>
  /\ UNCHANGED <<reqVars, storeVars>>
  /\ UNCHANGED notServeVars

\* main.py line 93: cache_set_zip(zip_code, data); its exception leaves the loop
LWrite ==
  /\ lpc = "write"
  /\ IF CacheSetRaises
     THEN /\ ListenerFails("ConnectionError", { cur.key[3] })
          /\ UNCHANGED <<cur, redis>>
     ELSE /\ redis' = cache_set_zip(cur.key[3], Val(cur.res))
          /\ cur' = [cur EXCEPT !.writes = @ + 1]
          /\ lpc' = "listening"
          /\ UNCHANGED <<inbox, lsleep, abandoned>>
  /\ UNCHANGED <<redisUp, upstream>>
  /\ UNCHANGED reqVars
  /\ UNCHANGED notServeVars

\* main.py lines 98, 101: time.sleep(30) goes on; when it is over the loop
\* starts again
SleepOn ==
  /\ lpc = "backoff"
  /\ lsleep' = Max(0, lsleep - ServeTickS)
  /\ lpc' = IF lsleep' = 0 THEN "connect" ELSE "backoff"
  /\ UNCHANGED <<inbox, cur, abandoned>>
  /\ UNCHANGED <<reqVars, storeVars>>
  /\ UNCHANGED notServeVars

(***************************************************************************)
(* The memoized adapters under the distributed cache, over weeks: the      *)
(* adapters' wrappers (utils/cache.py) keep their values in the process,   *)
(* the composite built from them is kept by the store (utils/kv.py) for    *)
(* its own lifetime.  A value is represented by the time its adapter ran.  *)
(***************************************************************************)
\* kv.py line 5: ZIP_CACHE_TTL_SECONDS, 30 days
ZIP_CACHE_TTL_SECONDS == 2592000

\* resolution of the clock, and where it stops
StaleTickS == 259200
MaxStaleTicks == 12

\* two of the adapters of compute_green_score
StaleAdapters == { "transit", "dem" }

\* transit.py line 57: @ttl_cache(seconds=7 * 24 * 3600);
\* demographics.py line 19: @ttl_cache(seconds=86400 * 30)
MemoSeconds(a) == IF a = "transit" THEN 604800 ELSE 2592000

StaleInit ==
  /\ tclock = 0
  /\ memo = [a \in StaleAdapters |-> Null]
  /\ zipEntry = Null
  /\ served = Null

\* time passes
StaleTick ==
  /\ tclock < MaxStaleTicks * StaleTickS
  /\ tclock' = tclock + StaleTickS
  /\ UNCHANGED <<memo, zipEntry, served>>
  /\ UNCHANGED notStaleVars

\* cache.py lines 35-38: the wrapper finds an entry that has not expired
MemoHit(a) == ~IsNull(memo[a]) /\ tclock - Val(memo[a]).ts < MemoSeconds(a)

\* cache.py lines 29-43: what the wrapper returns, and the entry it leaves
WrapperValue(a) == IF MemoHit(a) THEN Val(memo[a]).val ELSE tclock
WrapperEntry(a) == IF MemoHit(a) THEN memo[a] ELSE Some([val |-> tclock, ts |-> tclock])

\* the store holds the key until its lifetime is over
Live == ~IsNull(zipEntry) /\ tclock < Val(zipEntry).expires

\* compute_green_score: every adapter is called through its wrapper
Recompute ==
  /\ memo' = [a \in StaleAdapters |-> WrapperEntry(a)]
  /\ zipEntry' = Some([vals |-> [a \in StaleAdapters |-> WrapperValue(a)],
                       expires |-> tclock + ZIP_CACHE_TTL_SECONDS])

\* endpoints.py lines 285-304: the store has the entry; its composite is answered
RequestHit ==
  /\ Live
  /\ served' = Some([at |-> tclock, vals |-> Val(zipEntry).vals, hit |-> TRUE])
  /\ UNCHANGED <<tclock, memo, zipEntry>>
  /\ UNCHANGED notStaleVars

\* endpoints.py lines 285, 306-318: the store has no entry; the composite is
\* computed, written with the store's lifetime and answered
RequestMiss ==
  /\ ~Live
  /\ Recompute
  /\ served' = Some([at |-> tclock, vals |-> [a \in StaleAdapters |-> WrapperValue(a)],
                     hit |-> FALSE])
  /\ UNCHANGED tclock
  /\ UNCHANGED notStaleVars

\* endpoints.py lines 341-355: the route of the transit adapter alone calls the
\* same wrapper with the same arguments
TransitRoute ==
  /\ memo' = [memo EXCEPT !["transit"] = WrapperEntry("transit")]
  /\ UNCHANGED <<tclock, zipEntry, served>>
  /\ UNCHANGED notStaleVars

\* main.py lines 78-95: the entry's lifetime is over, the listener recomputes
\* the composite and writes it back
Rewarm ==
  /\ ~IsNull(zipEntry)
  /\ ~Live
  /\ Recompute
  /\ UNCHANGED <<tclock, served>>
  /\ UNCHANGED notStaleVars

(***************************************************************************)
(* The backoff of hedged_paced_query over the bases that                   *)
(* OVERPASS_BACKOFF_START_S may configure, every round failing.            *)
(***************************************************************************)
\* the configured bases: 0 to 20 s in steps of half a second
BaseStepMs == 500
MaxBaseSteps == 40
Bases == { BaseStepMs * i : i \in 0..MaxBaseSteps }

\* the call with the default base, no round failed yet
BackoffIdle ==
  /\ base = BACKOFF_START_MS
  /\ backoff = BACKOFF_START_MS
  /\ slept = << >>

\* line 32: backoff = _BACKOFF_START
BackoffInit ==
  /\ base \in Bases
  /\ backoff = base
  /\ slept = << >>

\* lines 45-46: the round has failed: time.sleep(backoff), then
\* backoff = min(backoff * 1.8, 12.0)
FailedRound ==
  /\ Len(slept) < MAX_RETRIES
  /\ slept' = Append(slept, backoff)
  /\ backoff' = NextBackoff(backoff)
  /\ UNCHANGED base
  /\ UNCHANGED notBackoffVars

(***************************************************************************)
(* Specifications.  A component that a specification does not run stays    *)
(* in its idle state.                                                      *)
(***************************************************************************)
ScoreIdle ==
  /\ scores = [k \in Metrics |-> ErrEntry]
  /\ overall_score = Null
  /\ spc = "scored"

ScoreNext == Score

InitScore == ScoreInit /\ OrchInit /\ MemoInit /\ PaceInit /\ ServeInit /\ StaleInit /\ BackoffIdle

SpecScore == InitScore /\ [][ScoreNext]_vars

\* the scoring function on the maps of WeighInit
InitWeigh == WeighInit /\ OrchInit /\ MemoInit /\ PaceInit /\ ServeInit /\ StaleInit /\ BackoffIdle

SpecWeigh == InitWeigh /\ [][ScoreNext]_vars

OrchNext ==
  \/ \E z \in Zips : \E c \in (IF Known(z) THEN { Null, Some(Point) } ELSE { Null }) : Call(z, c)
  \/ \E a \in Adapters : AdapterReturn(a)
  \/ CollectNext
  \/ Return
  \/ Propagate
  \/ ReRun

InitOrch == ScoreIdle /\ OrchInit /\ MemoInit /\ PaceInit /\ ServeInit /\ StaleInit /\ BackoffIdle

SpecOrch == InitOrch /\ [][OrchNext]_vars

\* the caller's thread runs whenever it can: a result() whose future is done
\* returns, and the with block is left once the pool is drained.  Nothing
\* makes an adapter return: its upstream may never answer.
InitOrchLive == ScoreIdle /\ OrchInit /\ MemoInit /\ PaceInit /\ ServeInit /\ StaleInit /\ BackoffIdle

SpecOrchLive ==
  InitOrchLive /\ [][OrchNext]_vars
    /\ WF_vars(CollectNext) /\ WF_vars(Return) /\ WF_vars(Propagate)

MemoNext ==
  \/ MemoTick
  \/ \E t \in MemoThreads : \E k \in MemoKeys : CallStart(t, k)
  \/ \E t \in MemoThreads : FnReturn(t)
  \/ \E t \in MemoThreads : FnRaise(t)
  \/ \E t \in MemoThreads : CallEnd(t)

InitMemo == ScoreIdle /\ OrchInit /\ MemoInit /\ PaceInit /\ ServeInit /\ StaleInit /\ BackoffIdle

SpecMemo == InitMemo /\ [][MemoNext]_vars

PaceNext ==
  \/ PaceTick
  \/ QueryStall
  \/ \E c \in PaceCallers : Begin(c)
  \/ \E c \in PaceCallers : SubmitRound(c)
  \/ \E x \in Tasks : Acquire(x)
  \/ \E x \in Tasks : WakeTask(x)
  \/ \E x \in Tasks : QueryOk(x)
  \/ \E x \in Tasks : QueryFail(x)
  \/ \E c \in PaceCallers : \E m \in Mirrors : TakeOk(c, m)
  \/ \E c \in PaceCallers : \E m \in Mirrors : TakeFail(c, m)
  \/ \E c \in PaceCallers : RoundTimeout(c)
  \/ \E c \in PaceCallers : LeaveReturn(c)
  \/ \E c \in PaceCallers : LeaveTimeout(c)
  \/ \E c \in PaceCallers : RoundFailed(c)
  \/ \E c \in PaceCallers : AfterBackoff(c)

InitPace == ScoreIdle /\ OrchInit /\ MemoInit /\ PaceInit /\ ServeInit /\ StaleInit /\ BackoffIdle

SpecPace == InitPace /\ [][PaceNext]_vars

\* admission over time: concurrent requests of one identity, which arrives as
\* the peer address or as the first x-forwarded-for entry, for a location that
\* does not resolve
AdmitHeaders == { <<"", "a">>, <<"a", "b">> }

AdmitNext ==
  \/ ServeTick
  \/ \E t \in ReqThreads : \E h \in AdmitHeaders : Arrive(t, h[1], h[2], "00000")
  \/ \E t \in ReqThreads : Admit(t)
  \/ \E t \in ReqThreads : Lookup(t)
  \/ \E t \in ReqThreads : Compute(t)

InitAdmit == ScoreIdle /\ OrchInit /\ MemoInit /\ PaceInit /\ ServeInit /\ StaleInit /\ BackoffIdle

SpecAdmit == InitAdmit /\ [][AdmitNext]_vars

\* requests of one identity within one minute, the store and the listener
\* admission of two identities over time: requests of identity a and of
\* identity b arrive one after another in any order, each as the peer address
\* or as the first x-forwarded-for entry behind the other's address
BudgetHeaders == { <<"", "a">>, <<"a", "b">>, <<"", "b">>, <<"b", "a">> }

BudgetNext ==
  \/ ServeTick
  \/ \E h \in BudgetHeaders : Arrive("r1", h[1], h[2], "00000")
  \/ Admit("r1")
  \/ Lookup("r1")
  \/ Compute("r1")

InitBudget == ScoreIdle /\ OrchInit /\ MemoInit /\ PaceInit /\ ServeInit /\ StaleInit /\ BackoffIdle

SpecBudget == InitBudget /\ [][BudgetNext]_vars

ServeNext ==
  \/ RedisDown
  \/ RedisBack
  \/ UpstreamChange
  \/ \E z \in ServeZips : Arrive("r1", "", "a", z)
  \/ Admit("r1")
  \/ Lookup("r1")
  \/ Compute("r1")
  \/ Write("r1")
  \/ \E z \in ServeZips : Expire(z)
  \/ \E k \in ForeignKeys : ForeignEvent(k)
  \/ Subscribe
  \/ ConnectionLost
  \/ Take
  \/ LCompute
  \/ LWrite
  \/ SleepOn

InitServe == ScoreIdle /\ OrchInit /\ MemoInit /\ PaceInit /\ ServeInit /\ StaleInit /\ BackoffIdle

SpecServe == InitServe /\ [][ServeNext]_vars

\* the listener's thread is scheduled: time.sleep returns when its time is
\* over, and the loop goes on to subscribe
InitServeLive == ScoreIdle /\ OrchInit /\ MemoInit /\ PaceInit /\ ServeInit /\ StaleInit /\ BackoffIdle

\* the listener's thread beside the requests of one resolvable zip, which
\* fill the store whose entries expire
ListenNext ==
  \/ RedisDown
  \/ RedisBack
  \/ Arrive("r1", "", "a", "77002")
  \/ Admit("r1")
  \/ Lookup("r1")
  \/ Compute("r1")
  \/ Write("r1")
  \/ \E z \in ServeZips : Expire(z)
  \/ \E k \in ForeignKeys : ForeignEvent(k)
  \/ Subscribe
  \/ ConnectionLost
  \/ Take
  \/ LCompute
  \/ LWrite
  \/ SleepOn

SpecServeLive ==
  InitServeLive /\ [][ListenNext]_vars /\ WF_vars(SleepOn) /\ WF_vars(Subscribe)

\* requests and rewarms of one location over five weeks
StaleNext ==
  \/ StaleTick
  \/ RequestHit
  \/ RequestMiss
  \/ TransitRoute
  \/ Rewarm

InitStale == ScoreIdle /\ OrchInit /\ MemoInit /\ PaceInit /\ ServeInit /\ StaleInit /\ BackoffIdle

SpecStale == InitStale /\ [][StaleNext]_vars

\* the failed rounds of one call, for each configured base
BackoffNext == FailedRound

InitBackoff == ScoreIdle /\ OrchInit /\ MemoInit /\ PaceInit /\ ServeInit /\ StaleInit /\ BackoffInit

SpecBackoff == InitBackoff /\ [][BackoffNext]_vars


(***************************************************************************)
(* Properties of compute_green_score (SpecOrch).                           *)
(***************************************************************************)
\* the metrics whose entries are built from adapter a's value
MetricsOf(a) ==
  CASE a = "air" -> { "air_quality" }
    [] a = "land" -> { "tree_canopy", "pavement" }
    [] a = "traffic" -> { "traffic" }
    [] a = "toxic" -> { "toxic_sites" }
    [] a = "green" -> { "green_space" }
    [] a = "dem" -> { "demographics" }
    [] a = "sea_level" -> { "sea_level_rise" }
    [] a = "transit" -> { "transit_access" }
    [] a = "water" -> { "water_availability" }
    [] a = "flood_rtfi" -> { "riverine_flood_risk" }

\* a call for a resolvable location has ended
CallEnded == opc \in { "done", "raised" } /\ ~IsNull(coords)

\* C1: a call for a resolvable location, whichever adapters fail (by an error
\* value or by raising), returns a composite in which the metrics of each failed
\* adapter hold an error entry and every other metric holds the entry it has
\* when no adapter fails; no failure aborts the call.
C1_FailureNeverAborts ==
  (CallEnded /\ run = 1) =>
    /\ result.kind = "composite"
    /\ \A a \in Adapters : \A k \in MetricsOf(a) :
         result.scores[k] = IF Failed(outputs[a]) THEN ErrEntry
                            ELSE BuildScores(LocationData(zip))[k]

\* a call in which only adapters that return error values failed
C1_ErrorValueCaptured ==
  /\ CallEnded /\ run = 1
  /\ result.kind = "composite"
  /\ \E a \in Adapters : outputs[a].kind = "err" /\ \A k \in MetricsOf(a) : result.scores[k] = ErrEntry

\* the first adapter, in the order the results are awaited, that raised
FirstRaise(o) ==
  LET I == { i \in 1..Len(AdapterOrder) : o[AdapterOrder[i]].kind = "raise" }
  IN  AdapterOrder[CHOOSE i \in I : \A j \in I : i <= j]

\* the outcome as a function of the adapters' outputs alone
ResultOf(z, c, o) ==
  IF \E a \in Adapters : o[a].kind = "raise"
  THEN Raised(FirstRaise(o))
  ELSE Composite(z, c, o)

\* C6: every result the caller has taken is the value its adapter returned, the
\* outcome of a call is a function of those values alone, and a second run in which every adapter returns what it returned in the
\* first ends with the result of the first, whatever the order in which the
\* adapters finish in either run.
C6_Deterministic ==
  /\ opc \in { "collect", "exiting", "unwinding" } =>
       \A i \in 1..(waitIdx - 1) :
         /\ got[AdapterOrder[i]] # NotYet
         /\ got[AdapterOrder[i]] = outputs[AdapterOrder[i]]
  /\ CallEnded => result = ResultOf(zip, coords, outputs)
  /\ (CallEnded /\ run = 2) => result = prev

\* a second run has returned a composite holding an error entry
C6_SecondRunDone ==
  /\ CallEnded /\ run = 2 /\ opc = "done"
  /\ result.kind = "composite"
  /\ \E a \in Adapters : Failed(outputs[a])
  /\ \E k \in Metrics : result.scores[k].error

(***************************************************************************)
(* Properties of _geometric_mean_over_scores (SpecScore).                  *)
(***************************************************************************)
\* an entry with a numeric score whose metric has a configured weight > 0
Usable(sc) ==
  { k \in Metrics : sc[k].numeric /\ k \in DOMAIN METRIC_WEIGHTS /\ METRIC_WEIGHTS[k] > 0 }

\* clamp(s, 1, 100)
Clamp1To100(s) == IF s < 1 THEN 1 ELSE IF s > 100 THEN 100 ELSE s

\* C2: overall_score is null exactly when no entry carries a numeric score
\* with a positive configured weight; otherwise it is an integer in 0..100.
C2_NullIffNoUsable ==
  spc = "scored" =>
    /\ IsNull(overall_score) <=> Usable(scores) = {}
    /\ ~IsNull(overall_score) => Val(overall_score) \in 0..100

\* a map whose only numeric score belongs to the unweighted metric: null
C2_UnweightedOnly ==
  /\ spc = "scored"
  /\ scores["demographics"].numeric
  /\ \A k \in Metrics \ { "demographics" } : ~scores[k].numeric
  /\ IsNull(overall_score)

RECURSIVE Gcd(_, _)
Gcd(a, b) == IF b = 0 THEN a ELSE Gcd(b, a % b)

RECURSIVE GcdOver(_, _)
GcdOver(S, f) ==
  IF S = {} THEN 0
  ELSE LET k == CHOOSE x \in S : TRUE IN Gcd(f[k], GcdOver(S \ {k}, f))

RECURSIVE Pow(_, _)
Pow(b, e) == IF e = 0 THEN 1 ELSE b * Pow(b, e - 1)

RECURSIVE ProdOver(_, _)
ProdOver(S, f) ==
  IF S = {} THEN 1
  ELSE LET k == CHOOSE x \in S : TRUE IN f[k] * ProdOver(S \ {k}, f)

\* the integer r is round(100 * exp(sum (w/W) ln(s/100))) over the metrics Q of
\* sc, by the logarithm table: r - 0.5 <= 100 * exp(...) < r + 0.5
RoundsByTable(sc, Q, r) ==
  LET W == SumOver(Q, [k \in Q |-> METRIC_WEIGHTS[k]])
      L == SumOver(Q, [k \in Q |-> METRIC_WEIGHTS[k] * LnTable[2 * Clamp1To100(sc[k].score)]])
  IN  /\ r \in 1..100
      /\ W * LnTable[2 * r - 1] <= L
      /\ r < 100 => L < W * LnTable[2 * r + 1]

\* the same in exact integers, the weights divided by their common divisor g:
\* (2r - 1)^W <= 2^W * product s^w < (2r + 1)^W
RoundsExactly(sc, Q, r) ==
  LET g == GcdOver(Q, [k \in Q |-> METRIC_WEIGHTS[k]])
      W == SumOver(Q, [k \in Q |-> METRIC_WEIGHTS[k] \div g])
      P == ProdOver(Q, [k \in Q |-> Pow(Clamp1To100(sc[k].score), METRIC_WEIGHTS[k] \div g)])
  IN  /\ Pow(2 * r - 1, W) <= Pow(2, W) * P
      /\ Pow(2, W) * P < Pow(2 * r + 1, W)

\* the reduced total weight is small enough for the exact test to fit 32 bits
ExactFits(sc, Q) ==
  LET g == GcdOver(Q, [k \in Q |-> METRIC_WEIGHTS[k]])
  IN  SumOver(Q, [k \in Q |-> METRIC_WEIGHTS[k] \div g]) <= 4

\* three equally weighted successes 80, 60, 40, every other entry an error
ThreeSuccesses ==
  /\ scores["sea_level_rise"] = OkEntry(80)
  /\ scores["green_space"] = OkEntry(60)
  /\ scores["riverine_flood_risk"] = OkEntry(40)
  /\ \A k \in Metrics \ { "sea_level_rise", "green_space", "riverine_flood_risk" } :
       ~scores[k].numeric

C4_SingleMetric ==
  spc = "scored" =>
    \A k \in Metrics :
      Usable(scores) = { k } => overall_score = Some(Clamp1To100(scores[k].score))

\* a single weighted success of 0 next to a scored unweighted metric: 1
C4_SingleFloored ==
  /\ spc = "scored"
  /\ Usable(scores) = { "pavement" }
  /\ scores["pavement"].score = 0
  /\ scores["demographics"].numeric
  /\ overall_score = Some(1)

\* C5: raising the score of one successful weighted metric, the other entries
\* fixed, never lowers overall_score.
C5_Monotone ==
  spc = "scored" =>
    \A k \in Usable(scores) : \A v \in ScoreVals :
      v > scores[k].score =>
        LET up == _geometric_mean_over_scores([scores EXCEPT ![k] = OkEntry(v)])
        IN  ~IsNull(up) /\ ~IsNull(overall_score) /\ Val(up) >= Val(overall_score)

\* a map of several successes in which raising one score raises overall_score
C5_StrictRise ==
  /\ spc = "scored"
  /\ Cardinality(Usable(scores)) >= 2
  /\ \E k \in Usable(scores) : \E v \in ScoreVals :
       /\ v > scores[k].score
       /\ Val(_geometric_mean_over_scores([scores EXCEPT ![k] = OkEntry(v)]))
            > Val(overall_score)

(***************************************************************************)
(* Properties of ttl_cache (SpecMemo).                                     *)
(***************************************************************************)
\* thread t's call found an entry for its key
FoundEntry(t) == calls[t].pc # "idle" /\ ~IsNull(calls[t].saw)

\* C7: a call made less than ttl after the entry for its arguments was stored
\* returns the stored value without invoking the wrapped function, however
\* long the wrapped function took to produce that value.
C7_HitWithinTtlOfStorage ==
  \A t \in MemoThreads :
    (FoundEntry(t) /\ calls[t].now - calls[t].sawAt < TtlSeconds) =>
      /\ calls[t].exec = 0
      /\ calls[t].pc = "returned"
      /\ calls[t].ret = Val(calls[t].saw).val

\* a call made less than ttl after storage invoked the wrapped function again
C7_MissWithinTtlOfStorage ==
  \E t \in MemoThreads :
    /\ FoundEntry(t)
    /\ calls[t].now - calls[t].sawAt < TtlSeconds
    /\ calls[t].exec > 0

\* a call that found an entry at least ttl after the call that produced it began
FoundExpired(t) == FoundEntry(t) /\ calls[t].now - Val(calls[t].saw).ts >= TtlSeconds

\* the wrapped function returns to t's call
Returns(t) == calls[t].pc = "computing" /\ calls'[t].pc = "returned"

\* C8: a call made ttl or more after the call that produced the entry invokes
\* the wrapped function once more, exactly once, and overwrites the entry with
\* the new value and a new timestamp; a later call within the next ttl returns
\* the entry it finds, and no call returns the value of an expired entry.
C8_ExpiredRecomputed ==
  /\ [](\A t \in MemoThreads :
          /\ FoundExpired(t) => calls[t].exec > 0 /\ calls[t].exec <= fnCount
          /\ (FoundExpired(t) /\ calls[t].pc = "returned") =>
               calls[t].ret = calls[t].exec /\ calls[t].ret # Val(calls[t].saw).val
          /\ (FoundEntry(t) /\ ~FoundExpired(t)) =>
               calls[t].exec = 0 /\ calls[t].ret = Val(calls[t].saw).val
          /\ \A u \in MemoThreads \ {t} :
               (calls[t].exec > 0 /\ calls[u].exec > 0) => calls[t].exec # calls[u].exec)
  /\ [][\A t \in MemoThreads :
          (Returns(t) /\ FoundExpired(t)) =>
            /\ fnCount' = fnCount
            /\ cache'[calls[t].key] = Some([val |-> calls[t].exec, ts |-> calls[t].now])
            /\ calls[t].now > Val(calls[t].saw).ts
            /\ calls[t].exec # Val(calls[t].saw).val]_vars

\* a call found an expired entry and recomputed it, and a later call found the
\* new entry and returned its value
C8_NewValueServed ==
  \E t \in MemoThreads : \E u \in MemoThreads \ {t} :
    /\ FoundExpired(t) /\ calls[t].pc = "returned"
    /\ calls[u].pc = "returned" /\ calls[u].exec = 0
    /\ calls[u].saw = Some([val |-> calls[t].exec, ts |-> calls[t].now])
    /\ calls[u].ret = calls[t].exec
    /\ calls[u].now > calls[t].now

(***************************************************************************)
(* Properties of the paced, hedged client (SpecPace).                      *)
(***************************************************************************)
\* C9: any two upstream queries, of whatever threads, start at least the
\* minimum interval apart, whether the earlier one succeeded or failed.
C9_GlobalPacing == minGap >= MIN_INTERVAL_MS

\* a query has started less than the minimum interval after a query that failed
C9_BurstAfterFailure ==
  /\ minGap < MIN_INTERVAL_MS
  /\ \E x \in Tasks : task[x].st = "fail"
  /\ \A x \in Tasks : task[x].st # "ok"
  /\ \A c \in PaceCallers : ~hq[c].anyOk

\* the call of c is over
CallOver(c) == hq[c].pc \in { "returned", "exhausted", "timeout_raised" }

\* C10: when every mirror query of every round fails, the call runs exactly
\* MAX_RETRIES rounds, each mirror queried once per round, and then raises the
\* exhaustion error; it runs no more and no fewer rounds and returns no value.
C10_ExhaustsAfterMaxRetries ==
  \A c \in PaceCallers :
    ~hq[c].anyOk =>
      /\ hq[c].rounds <= MAX_RETRIES
      /\ hq[c].pc # "returned"
      /\ CallOver(c) =>
           /\ hq[c].pc = "exhausted"
           /\ hq[c].rounds = MAX_RETRIES
           /\ hq[c].queries = MAX_RETRIES * Cardinality(Mirrors)

\* every query failed and the call raised the exhaustion error after MAX_RETRIES rounds
C10_Exhausted ==
  \E c \in PaceCallers :
    /\ hq[c].pc = "exhausted" /\ ~hq[c].anyOk
    /\ hq[c].rounds = MAX_RETRIES
    /\ hq[c].queries = MAX_RETRIES * Cardinality(Mirrors)

\* the mirrors whose query of the current round succeeded, and those that failed
OkMirrors(c) == { m \in Mirrors : task[<<c, m>>].st = "ok" }
FailedMirrors(c) == { m \in Mirrors : task[<<c, m>>].st = "fail" }

\* in the first round of c exactly one mirror answered and every other failed
OneHealthyMirror(c) ==
  /\ hq[c].rounds = 1
  /\ Cardinality(OkMirrors(c)) = 1
  /\ OkMirrors(c) \cup FailedMirrors(c) = Mirrors

\* C11: when exactly one mirror is healthy and the others fail, the call
\* returns the healthy mirror's response in the first round, in whichever order
\* the mirror queries complete, without a backoff sleep or a second round.
C11_HealthyMirrorWins ==
  \A c \in PaceCallers :
    OneHealthyMirror(c) =>
      /\ hq[c].pc \in { "race", "returning", "returned" }
      /\ hq[c].pc \in { "returning", "returned" } => hq[c].ret \in OkMirrors(c)

\* the first round ended in the timeout error although the healthy mirror
\* answered, the failing mirror having kept the gate for a minute
C11_TimeoutBesideHealthyMirror ==
  \E c \in PaceCallers :
    /\ OneHealthyMirror(c)
    /\ hq[c].pc = "timeout_raised"
    /\ hq[c].anyOk

(***************************************************************************)
(* Properties of the admission check (SpecAdmit).                          *)
(***************************************************************************)
\* the admissions of identity ip less than a minute before now
RecentAdmits(ip, now) ==
  Cardinality({ i \in 1..Len(admits[ip]) : now - admits[ip][i] < RATE_WINDOW_S })

\* thread t takes the step that decides the admission of its request, the
\* window of its identity being as the request read it and never overwritten
\* by a concurrent request
Decides(t) ==
  /\ req[t].pc = "admit"
  /\ req'[t].pc # "admit"
  /\ ~raced[req[t].ip]
  /\ _request_log[req[t].ip] = req[t].calls

\* C12: for one identity, from an empty window, the requests are admitted
\* while fewer than the limit were admitted in the last 60 s; the next request
\* within the same 60 s is rejected with 429; a request that arrives when the
\* earlier timestamps are 60 s old or older is admitted again.
C12_AdmissionWindow ==
  [][\A t \in ReqThreads :
       Decides(t) =>
         IF RecentAdmits(req[t].ip, req[t].now) < RATE_LIMIT_PER_MIN
         THEN /\ req'[t].pc = "lookup"
              /\ admits'[req[t].ip] = Append(admits[req[t].ip], req[t].now)
              /\ Len(_request_log'[req[t].ip]) = RecentAdmits(req[t].ip, req[t].now) + 1
              /\ done' = done
         ELSE /\ req'[t].pc = "idle"
              /\ done'.resp = Some(TooManyRequests)
              /\ admits' = admits]_vars

\* the limit was admitted at time 0, a request was rejected, and a request
\* arriving a minute later has been admitted again
C12_AdmittedAgainAfterAMinute ==
  \E t \in ReqThreads :
    /\ req[t].pc = "lookup"
    /\ req[t].now >= RATE_WINDOW_S
    /\ ~raced[req[t].ip]
    /\ admits[req[t].ip] = [i \in 1..(RATE_LIMIT_PER_MIN + 1) |->
                              IF i <= RATE_LIMIT_PER_MIN THEN 0 ELSE req[t].now]
    /\ _request_log[req[t].ip] = <<req[t].now>>
    /\ done.resp = Some(TooManyRequests)
    /\ done.ip = req[t].ip

(***************************************************************************)
(* Properties of the request handler and the distributed cache (SpecServe). *)
(***************************************************************************)
\* thread t takes the step that rejects its request
Rejects(t) == req[t].pc = "admit" /\ ~Admitted(Prune(req[t].calls, req[t].now))
              /\ req'[t].pc # "admit"

\* C13: a rejected request has no side effects: the rate window is left as it
\* was (no timestamp appended), the cache is neither read nor written, and the
\* orchestrator is not called.
C13_RejectionHasNoEffect ==
  /\ [](done.resp = Some(TooManyRequests) =>
          done.rd = 0 /\ done.ran = 0 /\ done.fan = 0 /\ done.wr = 0)
  /\ [][\A t \in ReqThreads :
          Rejects(t) =>
            /\ done'.resp = Some(TooManyRequests)
            /\ _request_log' = _request_log
            /\ redis' = redis
            /\ req'[t] = IdleReq]_vars

\* a request has been rejected while the cache held an entry for its location
C13_RejectedBesideEntry ==
  /\ done.resp = Some(TooManyRequests)
  /\ ~IsNull(redis[done.zip])
  /\ Len(_request_log[done.ip]) = RATE_LIMIT_PER_MIN

\* the content hash of a stored text
HashOfText(s) == <<"sha256", s[2], s[3]>>

\* thread t takes the step that reads the cache, which holds an entry for the
\* location of its request
ReadsEntry(t) ==
  /\ req[t].pc = "lookup"
  /\ req'[t].pc # "lookup"
  /\ redisUp
  /\ ~IsNull(redis[req[t].zip])

\* C14: when the cache holds an entry for the location, an admitted request
\* whose If-None-Match equals the entry's content hash is answered 304 without
\* a body, and one with another tag or none is answered with the serialized
\* entry; both answers carry the ETag and X-Cache: HIT, and neither calls the
\* orchestrator.
C14_HitAnswers ==
  /\ []((~IsNull(done.resp) /\ Val(done.resp).xcache = "HIT") =>
          done.rd = 1 /\ done.ran = 0 /\ done.fan = 0 /\ done.wr = 0)
  /\ [][\A t \in ReqThreads :
          ReadsEntry(t) =>
            LET text == Val(redis[req[t].zip])
                resp == Val(done'.resp)
            IN  /\ req'[t] = IdleReq
                /\ ~IsNull(done'.resp)
                /\ resp.etag = Some(HashOfText(text))
                /\ resp.xcache = "HIT"
                /\ IF req[t].inm = Some(HashOfText(text))
                   THEN resp.status = 304 /\ resp.body = << >>
                   ELSE resp.status = 200 /\ resp.body = text
                /\ done'.ran = 0
                /\ redis' = redis]_vars

\* a request that presented the tag of the cached entry has been answered 304
C14_NotModifiedServed ==
  /\ ~IsNull(done.resp)
  /\ Val(done.resp).status = 304
  /\ ~IsNull(redis[done.zip])
  /\ Val(done.resp).etag = Some(HashOfText(Val(redis[done.zip])))

\* the last response is a MISS
MissAnswered == ~IsNull(done.resp) /\ Val(done.resp).xcache = "MISS"

\* C15: an admitted request calls the orchestrator iff the cache lookup
\* misses; on a miss with a composite it writes the composite under the
\* location key before it answers with X-Cache: MISS, and until the TTL of
\* that entry elapses every lookup of the key returns exactly that composite:
\* the entry stays as it was written until the store deletes it.
C15_MissWritesThrough ==
  /\ [](/\ \A t \in ReqThreads :
             /\ req[t].pc = "compute" => req[t].rd = 1 /\ req[t].ran = 0
             /\ req[t].pc = "write" => req[t].rd = 1 /\ req[t].ran = 1
        /\ MissAnswered => done.rd = 1 /\ done.ran = 1 /\ done.wr = 1)
  /\ [][/\ \A t \in ReqThreads :
             /\ (req[t].pc = "lookup" /\ req'[t].pc # "lookup" /\ redisUp) =>
                  (IsNull(redis[req[t].zip]) <=> req'[t].pc = "compute")
             /\ (req[t].pc = "write" /\ req'[t].pc # "write" /\ redisUp) =>
                  /\ redis'[req[t].zip] = Some(Dumps(Val(req[t].result)))
                  /\ done'.resp = Some(FullBody(Val(req[t].result), "MISS"))
        /\ (MissAnswered' /\ done' # done) =>
             redis'[done'.zip] = Some(Val(done'.resp).body)
        /\ \A z \in ServeZips :
             ~IsNull(redis[z]) => redis'[z] = redis[z] \/ IsNull(redis'[z])]_vars

\* a request missed, wrote its composite and answered MISS; then the listener,
\* serving an expiration message from before, wrote the composite it had
\* computed from older data over that entry, no TTL having elapsed in between
C15_RewarmOverwroteMiss ==
  /\ MissAnswered
  /\ lpc = "listening" /\ inbox = << >>
  /\ cur.key = _key(done.zip) /\ cur.writes = 1
  /\ Val(cur.res).ver < Val(done.resp).body[3]
  /\ redis[done.zip] = Some(Dumps(Val(cur.res)))

\* C16: a location that does not resolve is terminal and never cached: the
\* request is answered with the error, neither green_score nor the listener
\* writes anything to the cache for the key, and no source adapter is called.
C16_UnresolvedNeverCached ==
  /\ [](/\ \A t \in ReqThreads :
             (~IsNull(req[t].result) /\ ~IsComposite(Val(req[t].result))) =>
               req[t].pc # "write" /\ req[t].fan = 0
        /\ (~IsNull(done.resp) /\ Val(done.resp) = ErrorBody) =>
             done.fan = 0 /\ done.wr = 0 /\ done.ran = 1
        /\ (~IsNull(cur.res) /\ ~IsComposite(Val(cur.res))) =>
             lpc # "write" /\ cur.fan = 0 /\ cur.writes = 0
        /\ \A z \in ServeZips :
             /\ ~IsNull(redis[z]) => Val(redis[z])[2] = z /\ Val(redis[z])[3] >= 1
             /\ ~Known(z) => IsNull(redis[z]))
  /\ [][/\ \A t \in ReqThreads :
             (req[t].pc = "compute" /\ ~IsNull(done'.resp) /\ Val(done'.resp) = ErrorBody
                /\ done' # done) =>
               redis' = redis /\ req'[t] = IdleReq
        /\ (lpc = "compute" /\ ~IsNull(cur'.res) /\ ~IsComposite(Val(cur'.res))) =>
             redis' = redis /\ lpc' = "listening"]_vars

\* a request for a location that does not resolve has been answered with the
\* error, and the listener has served an expiration message whose location
\* did not resolve
C16_BothPathsUnresolved ==
  /\ ~IsNull(done.resp) /\ Val(done.resp) = ErrorBody /\ ~Known(done.zip)
  /\ ~IsNull(cur.res) /\ ~IsComposite(Val(cur.res))
  /\ cur.computes = 1 /\ lpc = "listening"

\* C17: when the store cannot be reached the request still succeeds: a
\* failing cache read is treated as a miss and the composite is computed, and
\* a failing cache write after the computation does not fail the request.
C17_StoreFailureTolerated ==
  [][\A t \in ReqThreads :
       /\ (req[t].pc = "lookup" /\ req'[t].pc # "lookup" /\ CacheGetRaises) =>
            req'[t].pc = "compute"
       /\ (req[t].pc = "write" /\ req'[t].pc # "write" /\ CacheSetRaises) =>
            /\ ~IsNull(done'.resp)
            /\ Val(done'.resp).status = 200
            /\ Val(done'.resp).body = Dumps(Val(req[t].result))]_vars

\* a request whose cache read failed has been answered with a server error,
\* the orchestrator not having been called
C17_ReadFailureFailsRequest ==
  /\ done.resp = Some(ServerError)
  /\ done.rd = 1 /\ done.ran = 0
  /\ ~redisUp

(***************************************************************************)
(* Properties of the expiration listener (SpecServe, SpecServeLive).       *)
(***************************************************************************)
\* the message is a string that begins with the namespace's prefix
Relevant(k) == k[1] = "str" /\ k[2] = "greenscore:"

\* the listener takes the next message off its subscription
TakesMessage ==
  /\ lpc = "listening"
  /\ lpc' \in { "listening", "compute" }
  /\ Len(inbox') = Len(inbox) - 1

\* C18: every expiration message for a key of the namespace that is delivered
\* while the listener runs leads to a recomputation and, when the location
\* resolves, to a write-back: no such message is given up unserved, also when
\* it arrives during an earlier rewarm or follows a rewarm that failed.
C18_EveryMessageRewarmed ==
  /\ abandoned = {}
  /\ lpc \in { "compute", "write" } => Relevant(cur.key)
  /\ lpc = "write" => ~IsNull(cur.res) /\ IsComposite(Val(cur.res))

\* the rewarm of a key was given up after its location had resolved, the
\* listener has subscribed again with nothing pending, and the key is absent
C18_KeyLeftCold ==
  \E z \in abandoned :
    /\ IsNull(redis[z])
    /\ lpc = "listening"
    /\ inbox = << >>
    /\ cur.key = _key(z)
    /\ cur.writes = 0

\* C19: the listener makes at most one recomputation and at most one cache
\* write per delivered message; a message whose key lacks the prefix, or is
\* not a string, triggers no recomputation and leaves the cache unchanged.
C19_AtMostOneRewarmPerMessage ==
  /\ [](/\ cur.computes <= 1
        /\ cur.writes <= cur.computes
        /\ lpc = "compute" => cur.computes = 0
        /\ lpc = "write" => cur.computes = 1 /\ cur.writes = 0
        /\ ~Relevant(cur.key) =>
             cur.computes = 0 /\ cur.writes = 0 /\ lpc \notin { "compute", "write" })
  /\ [][/\ TakesMessage =>
             /\ inbox' = Tail(inbox)
             /\ cur' = [NoMessage EXCEPT !.key = Head(inbox)]
             /\ redis' = redis
             /\ ~Relevant(Head(inbox)) => lpc' = "listening"
        /\ cur'.computes > cur.computes => lpc = "compute" /\ cur'.key = cur.key
        /\ cur'.writes > cur.writes =>
             /\ lpc = "write" /\ cur'.key = cur.key
             /\ redis' = [redis EXCEPT ![cur.key[3]] = Some(Dumps(Val(cur.res)))]]_vars

\* a key of another namespace has been passed over: nothing computed, nothing
\* written, the listener waiting for the next message
C19_ForeignKeyPassedOver ==
  /\ cur.key = <<"str", "session:", "77002">>
  /\ IsNull(redis["77002"])
  /\ cur.computes = 0 /\ cur.writes = 0
  /\ lpc = "listening"

\* the positions in which the listener is inside its try block
Running == { "connect", "listening", "compute", "write" }

\* C20: the listener never terminates: after any failure (the connection is
\* lost, the subscription fails, the handling of a message raises) it waits
\* the fixed back-off interval and then subscribes again, every time.
C20_ListenerNeverStops ==
  /\ [](/\ lpc \in Running \cup { "backoff" }
        /\ lpc = "backoff" => lsleep > 0 /\ lsleep <= LISTEN_BACKOFF_S)
  /\ [][/\ (lpc \in Running /\ lpc' \notin Running) =>
             lpc' = "backoff" /\ lsleep' = LISTEN_BACKOFF_S
        /\ (lpc = "connect" /\ lpc' # lpc) =>
             lpc' = (IF redisUp THEN "listening" ELSE "backoff")
        /\ (lpc = "backoff" /\ lpc' # lpc) => lpc' = "connect" /\ lsleep' = 0
        /\ (lpc = "backoff" /\ lsleep' # lsleep) => lsleep' < lsleep]_vars
  /\ (lpc = "backoff") ~> (lpc = "connect")
  /\ (lpc = "connect") ~> (lpc \in { "listening", "backoff" })

\* the listener has failed while handling a message, slept, and is subscribed
\* again
C20_ResubscribedAfterFailure ==
  /\ lpc = "listening"
  /\ cur.computes = 1 /\ cur.writes = 0 /\ IsNull(cur.res)
  /\ lsleep = 0
  /\ abandoned # {}

(***************************************************************************)
(* Properties of the memoized adapters under the distributed cache         *)
(* (SpecStale).                                                            *)
(***************************************************************************)
\* the age, at the moment of the answer, of adapter a's value in the composite
\* answered last
AgeServed(a) == Val(served).at - Val(served).vals[a]

\* C21: every adapter value in a composite served from the distributed cache
\* was computed by its adapter no longer than the store's lifetime of an entry
\* before the moment it is served.
C21_StalenessBound ==
  (~IsNull(served) /\ Val(served).hit) =>
    \A a \in StaleAdapters : AgeServed(a) <= ZIP_CACHE_TTL_SECONDS

\* a composite answered from the store holds a value that its adapter computed
\* longer ago than the store's lifetime of an entry
C21_ServedOlderThanLifetime ==
  /\ ~IsNull(served)
  /\ Val(served).hit
  /\ \E a \in StaleAdapters : AgeServed(a) > ZIP_CACHE_TTL_SECONDS

\* the outcomes of the handler itself: not modified, cached body, freshly
\* computed body and error result (neither a rejection nor an exception)
HandlerOutcome == ~IsNull(done.resp) /\ Val(done.resp).status \in { 200, 304 }

\* the response given last was answered from the distributed cache: the
\* request read the cache and did not call the orchestrator
FromCache == done.rd = 1 /\ done.ran = 0

\* C22: every response of the green-score handler, in each of its outcomes
\* (not modified, cached body, freshly computed body, error result), carries a
\* cache lifetime and a hit/miss indicator, and the indicator is HIT exactly
\* when the response was served from the distributed cache.
C22_EveryResponseAdvertises ==
  HandlerOutcome =>
    /\ ~IsNull(Val(done.resp).maxAge)
    /\ Val(done.resp).xcache \in { "HIT", "MISS" }
    /\ Val(done.resp).xcache = "HIT" <=> FromCache

\* the error result of an unresolvable location was returned with neither a
\* cache lifetime nor an indicator
C22_ErrorResultBare ==
  /\ HandlerOutcome
  /\ done.zip = "00000"
  /\ Val(done.resp).body = <<"error">>
  /\ IsNull(Val(done.resp).maxAge)
  /\ Val(done.resp).xcache = ""

\* the map without the entry of metric k, and the map with an entry of a
\* metric that neither the orchestrator nor the weight mapping knows
Without(sc, k) == [ j \in (DOMAIN sc) \ { k } |-> sc[j] ]
WithForeign(sc, e) == [ j \in (DOMAIN sc) \cup { "noise" } |-> IF j = "noise" THEN e ELSE sc[j] ]

\* C23: a metric whose name is absent from the weight mapping contributes
\* nothing: changing, removing or adding the entry of such a metric
\* (demographics, or a name unknown altogether) leaves overall_score as it
\* is, and overall_score is null when only such entries carry scores.
C23_UnweightedContributesNothing ==
  spc = "scored" =>
    /\ \A e \in OtherEntries :
         /\ _geometric_mean_over_scores([scores EXCEPT !["demographics"] = e]) = overall_score
         /\ _geometric_mean_over_scores(WithForeign(scores, e)) = overall_score
    /\ _geometric_mean_over_scores(Without(scores, "demographics")) = overall_score
    /\ (\A k \in Metrics : scores[k].numeric => k \notin DOMAIN METRIC_WEIGHTS)
         => IsNull(overall_score)

\* a map in which demographics carries a score beside a weighted metric's
\* score: the result is that of the weighted metric alone
C23_ScoredBesideWeighted ==
  /\ spc = "scored"
  /\ scores["demographics"] = OkEntry(40)
  /\ scores["traffic"] = OkEntry(80)
  /\ \A k \in Metrics \ { "demographics", "traffic" } : ~scores[k].numeric
  /\ overall_score = Some(80)

\* the mirrors of c whose query of the current round is in flight, and those
\* whose task has not been let through the gate yet
InFlight(c) == { m \in Mirrors : task[<<c, m>>].st = "query" }
Held(c) == { m \in Mirrors : task[<<c, m>>].st \in { "waitlock", "sleep" } }

\* C24: within one round the mirror queries run in parallel: a mirror whose
\* query is in flight, however slow, does not keep the query to another
\* mirror of the round from starting: a task of the round that has not
\* entered the gate can enter it.
C24_MirrorsRunInParallel ==
  \A c \in PaceCallers :
    \A m \in InFlight(c) : \A n \in Mirrors \ { m } :
      task[<<c, n>>].st = "waitlock" => ENABLED Acquire(<<c, n>>)

\* a mirror's query has been in flight for the whole 60 s of the round while
\* the other mirror's task still waits for the gate
C24_SiblingWaitsForSlowMirror ==
  \E c \in PaceCallers :
    /\ Cardinality(InFlight(c)) = 1
    /\ Cardinality(Held(c)) = 1
    /\ hq[c].queries = 1
    /\ pclock - hq[c].roundStart >= ROUND_TIMEOUT_MS

(***************************************************************************)
(* Properties of the admission under concurrent requests (SpecAdmit).      *)
(***************************************************************************)
\* the admissions of ip whose time lies in the 60 s that begin at time a, and
\* the number of times the value v occurs in a list
AdmitsFrom(ip, a) ==
  { i \in 1..Len(admits[ip]) : admits[ip][i] >= a /\ admits[ip][i] - a < RATE_WINDOW_S }
Occurrences(ts, v) == Cardinality({ i \in 1..Len(ts) : ts[i] = v })

\* the latest time at which a request of ip was admitted
LatestAdmit(ip) ==
  CHOOSE a \in { admits[ip][i] : i \in 1..Len(admits[ip]) } :
    \A i \in 1..Len(admits[ip]) : admits[ip][i] <= a

\* C25: under any interleaving of concurrent requests of one identity the
\* prune-check-append on its window is atomic: no more than the limit of
\* requests are admitted within any 60 seconds, and the window holds the
\* timestamp of every request admitted in the 60 s up to the latest admission.
C25_AdmissionAtomic ==
  \A ip \in Identities :
    /\ \A i \in 1..Len(admits[ip]) :
         Cardinality(AdmitsFrom(ip, admits[ip][i])) <= RATE_LIMIT_PER_MIN
    /\ \A i \in 1..Len(admits[ip]) :
         LatestAdmit(ip) - admits[ip][i] < RATE_WINDOW_S =>
           Occurrences(_request_log[ip], admits[ip][i]) >= Occurrences(admits[ip], admits[ip][i])

\* two requests of one identity that read the same window, one entry short of
\* the limit, were both admitted: more than the limit at one time, and the
\* window holds the timestamp of one of them only
C25_BothAdmittedOneRecorded ==
  \E ip \in Identities :
    /\ raced[ip]
    /\ admits[ip] = [i \in 1..(RATE_LIMIT_PER_MIN + 1) |-> 0]
    /\ Len(_request_log[ip]) = RATE_LIMIT_PER_MIN
    /\ \A t \in ReqThreads : req[t].pc # "admit"

\* C26: a round lasts only as long as its fastest successful mirror: once
\* the response of a mirror has been taken, the call can return it, whether or
\* not the remaining mirror calls of the round have been issued or completed.
C26_ReturnsWithFastestMirror ==
  \A c \in PaceCallers : hq[c].pc = "returning" => ENABLED LeaveReturn(c)

\* the response of the first mirror was taken at the start of the round; a
\* minute later the call has still not returned it, the query to the other
\* mirror being in flight
C26_ReturnWaitsForSibling ==
  \E c \in PaceCallers :
    /\ hq[c].pc = "returning"
    /\ hq[c].ret \in OkMirrors(c)
    /\ InFlight(c) # {}
    /\ pclock - hq[c].roundStart >= ROUND_TIMEOUT_MS

\* the number of times the gate has let a task of c's call through: the
\* queries issued, and the tasks that hold the gate asleep before their query
Grants(c) ==
  hq[c].queries + Cardinality({ m \in Mirrors : task[<<c, m>>].st = "sleep" })

\* C27: each round passes the pacing gate exactly once, before it fans out
\* to its mirrors: the gate has let the call through no more often than it has
\* started rounds, and as often when the call is over.
C27_OneGrantPerRound ==
  \A c \in PaceCallers :
    /\ Grants(c) <= hq[c].rounds
    /\ CallOver(c) => Grants(c) = hq[c].rounds

\* in its first round the call has passed the gate for the first mirror's
\* query, which answered, and again for the second mirror, whose task sleeps
\* the pacing interval inside the gate
C27_SecondGrantInOneRound ==
  \E c \in PaceCallers :
    /\ hq[c].rounds = 1
    /\ hq[c].queries = 1
    /\ Cardinality(OkMirrors(c)) = 1
    /\ \E m \in Mirrors : task[<<c, m>>].st = "sleep" /\ lockOwner = <<c, m>>

\* the tasks inside the critical section of _paced_call: asleep before
\* their query, or with their query in flight
InSection == { x \in Tasks : task[x].st \in { "sleep", "query" } }

\* C28: the pacing gate is mutually exclusive: at most one task is inside the
\* critical section of _paced_call at any time, and the shared timestamp of
\* the last call is written only by the task inside, to the present time, so
\* that no update of it is lost or put back.
C28_GateMutuallyExclusive ==
  /\ [](Cardinality(InSection) <= 1 /\ InSection \subseteq { lockOwner })
  /\ [][last_call' # last_call =>
          /\ InSection = { lockOwner }
          /\ task[lockOwner].st = "query"
          /\ task'[lockOwner].st = "ok"
          /\ last_call' = pclock
          /\ last_call' > last_call]_vars

\* the first task's query has set the timestamp and left the gate; the second
\* task, which had to wait outside meanwhile, is now inside and sleeps until
\* the pacing interval after that timestamp is over
C28_SecondEnteredAfterFirst ==
  /\ last_call > 0
  /\ \E x \in Tasks :
       /\ InSection = { x }
       /\ lockOwner = x
       /\ task[x] = [st |-> "sleep", wakeAt |-> last_call + MIN_INTERVAL_MS]
  /\ \E y \in Tasks : task[y].st = "ok"

(***************************************************************************)
(* Properties of the backoff schedule (SpecBackoff).                       *)
(***************************************************************************)
\* the delay after the k-th failed round is min(base * 1.8^(k-1), cap), both
\* sides multiplied by 5^(k-1)
ScheduledDelay(k) ==
  slept[k] * Pow(5, k - 1) = Min(base * Pow(9, k - 1), BACKOFF_CAP_MS * Pow(5, k - 1))

\* C29: after the k-th consecutive failed round the call sleeps
\* min(base * factor^(k-1), cap) before the next round; the successive delays
\* do not decrease and none exceeds the cap, for every configured base.
C29_BackoffSchedule ==
  \A k \in 1..Len(slept) :
    /\ ScheduledDelay(k)
    /\ slept[k] <= BACKOFF_CAP_MS
    /\ k > 1 => slept[k] >= slept[k - 1]

\* with a base of 20 s the first delay was 20 s, above the cap, and the
\* second delay, the cap, was shorter than the first
C29_FirstDelayAboveCap ==
  /\ base = 20000
  /\ Len(slept) >= 2
  /\ slept[1] = 20000
  /\ slept[2] = BACKOFF_CAP_MS

(***************************************************************************)
(* The delay between rounds (SpecPace).                                    *)
(***************************************************************************)
\* C30: the delay between a failed round and the next round has a random
\* part on top of the backoff: when a round has failed, the call may sleep
\* until some time other than the end of the round plus the backoff, so that
\* the delay is not determined by the attempt number.
C30_RetryDelayJittered ==
  \A c \in PaceCallers :
    ENABLED RoundFailed(c) =>
      ENABLED (RoundFailed(c) /\ hq'[c].wakeAt # pclock + hq[c].backoff)

\* the second round has just failed and the call sleeps until exactly 2.7 s,
\* the second backoff, after this moment
C30_SleepsBackoffExactly ==
  \E c \in PaceCallers :
    /\ hq[c].pc = "backoff"
    /\ hq[c].attempt = 2
    /\ hq[c].backoff = NextBackoff(BACKOFF_START_MS)
    /\ hq[c].wakeAt = pclock + NextBackoff(BACKOFF_START_MS)

\* C31: the call has exactly two outcomes: it returns the response of a
\* mirror that answered, or it raises the exhaustion error after MAX_RETRIES
\* rounds in which every mirror failed; no other exception leaves it, and it
\* does not fail before all rounds are used.
C31_TwoOutcomes ==
  \A c \in PaceCallers :
    CallOver(c) =>
      \/ hq[c].pc = "returned" /\ hq[c].ret \in OkMirrors(c)
      \/ hq[c].pc = "exhausted" /\ hq[c].rounds = MAX_RETRIES /\ ~hq[c].anyOk

\* the call ended in its second round with the timeout error of as_completed,
\* after a first round in which every mirror failed
C31_TimeoutLeavesSecondRound ==
  \E c \in PaceCallers :
    /\ hq[c].pc = "timeout_raised"
    /\ hq[c].rounds = 2
    /\ hq[c].attempt = 2

(***************************************************************************)
(* Further properties of the TTL memoizer (SpecMemo).                      *)
(***************************************************************************)
\* thread t's call of the wrapped function returns; thread t begins a call
Produces(t) == calls[t].pc = "computing" /\ calls'[t].pc = "returned"
Begins(t) == calls[t].pc = "idle" /\ calls'[t].pc # "idle"

\* C32: an error value returned by the wrapped function is memoized like a
\* result: it is stored with the timestamp of the call that produced it, and
\* every identical call that begins less than ttl after that timestamp
\* returns the stored error without invoking the function.
C32_ErrorValueMemoized ==
  [][\A t \in MemoThreads :
       /\ (Produces(t) /\ calls[t].key \in ErrorArgs) =>
            cache'[calls[t].key] = Some([val |-> calls'[t].ret, ts |-> calls[t].now])
       /\ (Begins(t) /\ calls'[t].key \in ErrorArgs
             /\ ~IsNull(cache[calls'[t].key])
             /\ mclock - Val(cache[calls'[t].key]).ts < TtlSeconds) =>
            /\ calls'[t].pc = "returned"
            /\ calls'[t].ret = Val(cache[calls'[t].key]).val
            /\ fnCount' = fnCount]_vars

\* a call for the failing arguments, begun a tick after the call that produced
\* the error, has returned the stored error; the function has run once
C32_ErrorServedFromMemo ==
  \E t \in MemoThreads :
    /\ calls[t].pc = "returned"
    /\ calls[t].key \in ErrorArgs
    /\ calls[t].exec = 0
    /\ cache[calls[t].key] = Some([val |-> calls[t].ret, ts |-> calls[t].now - 1])
    /\ fnCount = 1

\* thread t's call of the wrapped function raises
Raises(t) == calls[t].pc = "computing" /\ calls'[t].pc # "computing" /\ calls'[t].pc # "returned"

\* C33: when the wrapped function raises, the memo store is left as it was
\* (no entry created or overwritten), the caller gets the exception and no
\* value, the entry the call found is still not fresh afterwards, and a call
\* that begins while the entry is absent or not fresh invokes the function.
C33_RaiseLeavesStore ==
  /\ [](\A t \in MemoThreads :
          (calls[t].pc = "raised" /\ cache[calls[t].key] = calls[t].saw) =>
            ~(~IsNull(cache[calls[t].key])
                /\ mclock - Val(cache[calls[t].key]).ts < TtlSeconds))
  /\ [][\A t \in MemoThreads :
          /\ Raises(t) =>
               /\ cache' = cache
               /\ storedAt' = storedAt
               /\ calls'[t].pc = "raised"
               /\ calls'[t].ret = 0
          /\ (Begins(t)
                /\ (IsNull(cache[calls'[t].key])
                      \/ mclock - Val(cache[calls'[t].key]).ts >= TtlSeconds)) =>
               /\ calls'[t].pc = "computing"
               /\ fnCount' = fnCount + 1]_vars

\* the second execution of the function has raised like the first: two
\* executions have run and the store holds no entry
C33_RaisedTwiceNothingStored ==
  \E t \in MemoThreads :
    /\ calls[t].pc = "raised"
    /\ calls[t].exec = 2
    /\ \A u \in MemoThreads \ {t} : calls[u].pc = "idle"
    /\ \A k \in MemoKeys : IsNull(cache[k])

\* C34: there is no single flight.  Every call that executes the wrapped
\* function returns the value of its own execution and leaves the entry
\* holding that value, and an entry changes only by such a store, so the
\* entry holds the value of the call that stored last.
C34_OwnValueLastStoreWins ==
  [][/\ \A t \in MemoThreads :
          Produces(t) =>
            /\ calls'[t].ret = calls[t].exec
            /\ ~IsNull(cache'[calls[t].key])
            /\ Val(cache'[calls[t].key]).val = calls[t].exec
     /\ \A k \in MemoKeys :
          cache'[k] # cache[k] =>
            \E t \in MemoThreads : Produces(t) /\ calls[t].key = k]_vars

\* two calls with the same argument tuple, both begun while it had no entry,
\* have both executed the function and returned different values; the entry
\* holds the value of the first execution, whose call stored last
C34_BothExecutedSameKey ==
  \E t, u \in MemoThreads :
    /\ t # u
    /\ calls[t].pc = "returned" /\ calls[u].pc = "returned"
    /\ calls[t].key = calls[u].key
    /\ IsNull(calls[t].saw) /\ IsNull(calls[u].saw)
    /\ calls[t].exec = 1 /\ calls[u].exec = 2
    /\ calls[t].ret = 1 /\ calls[u].ret = 2
    /\ Val(cache[calls[t].key]).val = 1

(***************************************************************************)
(* Further properties of hedged_paced_query (SpecPace).                    *)
(***************************************************************************)
\* C35: hedged_paced_query leaks no pending work.  Once the call has returned
\* or raised, and whenever it is between rounds, every task it submitted has
\* completed (its query returned or raised); none waits for the gate, sleeps
\* or queries.
C35_NoPendingWork ==
  \A c \in PaceCallers :
    hq[c].pc \in { "returned", "exhausted", "timeout_raised", "backoff", "submit" } =>
      \A m \in Mirrors :
        /\ task[<<c, m>>].st \notin { "waitlock", "sleep", "query" }
        /\ hq[c].rounds > 0 => task[<<c, m>>].st \in { "ok", "fail" }

\* the call has returned the first mirror's response; the second mirror's
\* query has completed with a response that nobody reads
C35_SiblingCompletedUnread ==
  \E c \in PaceCallers :
    /\ hq[c].pc = "returned"
    /\ hq[c].ret = 1
    /\ hq[c].seen = {1}
    /\ task[<<c, 2>>].st = "ok"

(***************************************************************************)
(* Further properties of compute_green_score (SpecOrch).                   *)
(***************************************************************************)
\* the metrics whose adapter returned a dict with an "error" key
ErrorMetrics == UNION { MetricsOf(a) : a \in { b \in Adapters : got[b].kind = "err" } }

\* C36: in a composite, an entry recorded as an error carries no score; the
\* entries of an adapter that returned an error, with a score or without,
\* are error-only entries; and overall_score is what it is without them.
C36_ErrorEntryCarriesNoScore ==
  result.kind = "composite" =>
    /\ \A k \in Metrics :
         result.scores[k].error =>
           ~result.scores[k].numeric /\ IsNull(_extract_score(result.scores[k]))
    /\ \A k \in ErrorMetrics : result.scores[k] = ErrEntry
    /\ result.overall_score =
         _geometric_mean_over_scores([ k \in Metrics \ ErrorMetrics |-> result.scores[k] ])

\* the flood adapter has returned an error together with a score of 100; the
\* composite records the metric as an error, every other metric as returned
C36_FloodErrorWithScore ==
  /\ result.kind = "composite"
  /\ got["flood_rtfi"] = ErrScoreValue(100)
  /\ result.scores["riverine_flood_risk"] = ErrEntry
  /\ ErrorMetrics = { "riverine_flood_risk" }
  /\ ~IsNull(result.overall_score)

(***************************************************************************)
(* Further properties of green_score (SpecServe, SpecAdmit).               *)
(***************************************************************************)
\* the tag of a stored text: the hash of what the text says
TagOfText(s) == <<"sha256", s[2], s[3]>>

\* the request of thread t ends in this step, having been at position p
Ends(t, p) == req[t].pc = p /\ req'[t].pc = "idle"

Young(ts, now) == { i \in 1..Len(ts) : now - ts[i] < RATE_WINDOW_S }

\* C38: admission budgets are independent per identity.  A request's
\* identity is the first x-forwarded-for entry when there is one and the
\* peer address otherwise; the window it reads is its identity's; it is
\* admitted exactly when that window holds fewer than the limit of
\* timestamps younger than 60 s; its admission or rejection leaves every
\* other identity's window as it was; and every timestamp in an identity's
\* window is the time of an admitted request of that identity.
C38_BudgetsIndependent ==
  /\ [](\A i \in Identities :
          \A k \in 1..Len(_request_log[i]) :
            \E n \in 1..Len(admits[i]) : admits[i][n] = _request_log[i][k])
  /\ [][\A t \in ReqThreads :
          /\ \A h \in Identities \X Identities \cup ({""} \X Identities) :
               Arrive(t, h[1], h[2], "00000") =>
                 req'[t].ip = (IF h[1] = "" THEN h[2] ELSE h[1])
          /\ (req[t].pc = "idle" /\ req'[t].pc = "admit") =>
               /\ req'[t].calls = _request_log[req'[t].ip]
               /\ _request_log' = _request_log
          /\ (req[t].pc = "admit" /\ req'[t].pc # "admit") =>
               /\ \A j \in Identities \ { req[t].ip } :
                    _request_log'[j] = _request_log[j] /\ admits'[j] = admits[j]
               /\ req'[t].pc = "lookup" <=>
                    Cardinality(Young(req[t].calls, req[t].now)) < RATE_LIMIT_PER_MIN]_vars

\* identity b's window is full of young timestamps, and a request of
\* identity a arriving now has been admitted on a's own empty window
C38_OtherBudgetSpent ==
  \E t \in ReqThreads :
    /\ req[t].pc = "lookup"
    /\ req[t].ip = "a"
    /\ req[t].now = sclock
    /\ _request_log["a"] = <<sclock>>
    /\ Len(_request_log["b"]) = RATE_LIMIT_PER_MIN
    /\ Cardinality(Young(_request_log["b"], sclock)) = RATE_LIMIT_PER_MIN

\* every adapter submitted by the call in progress has returned or raised
AllCompleted == \A a \in Adapters : fut[a].state = "done"

\* C39: compute_green_score returns only after every adapter call it
\* submitted has completed, and then with a composite; once all adapters have
\* completed the call ends; a call with an adapter that never completes
\* never ends.
C39_WaitsForAllThenComposite ==
  /\ [](CallEnded => (AllCompleted /\ result.kind = "composite"))
  /\ ((opc = "collect" /\ AllCompleted) ~> CallEnded)

\* every adapter of the call has completed, get_green_space by raising, and
\* the call has ended with that exception
C39_AllCompletedCallRaised ==
  /\ CallEnded
  /\ AllCompleted
  /\ fut["green"].value = RaiseValue
  /\ result = Raised("green")

Spec == SpecOrch
====
